---- MODULE Spec2Model ----
(***************************************************************************)
(* The subscription lifecycle of newsbullet-server: the Subscription       *)
(* store (models/Subscription.js), the user actions create / verify /      *)
(* cancel / pause / resume and the Razorpay webhook with its ten           *)
(* reconciliation handlers (controllers/payment.controller.js), and the    *)
(* raw-body middleware in front of the webhook (app.js).                   *)
(*                                                                         *)
(* Every request is one action: the whole handler, from its first check    *)
(* to its response.  The gateway and the sender of a webhook are the       *)
(* environment: what they answer or send is drawn from small sets.         *)
(*                                                                         *)
(* RaceSpec runs the same handlers cut at their awaits, several requests   *)
(* at a time, for what depends on how requests interleave.                 *)
(*                                                                         *)
(* AuthSpec and AuthRaceSpec are the refresh-token sessions of the auth    *)
(* controller, SyncSpec the YouTube catalog sync.                          *)
(***************************************************************************)
EXTENDS Integers, Sequences, FiniteSets, TLC

\* ------------------------------------------------------------------ bounds
\* Subscriptions the gateway will create (ids 1..MaxSubs).
MaxSubs == 2
\* Requests handled in one behaviour; the clock ticks once per request.
MaxClock == 3
\* The total_count a create request asks for, and the largest paid_count.
MaxCount == 2
\* Requests the server handles at the same time (RaceSpec).
MaxInflight == 2
\* The latest time at which a request arrives in RaceSpec, where the clock
\* ticks at every step of a handler.
MaxArrival == 5

\* ------------------------------------------------------- program constants
\* total_count || 12
DefaultTotalCount == 12
\* toDate(ts) of a missing or zero timestamp is null: the date no field holds.
NoDate == 0

\* A string field that was never set (undefined / null).
Unset == "unset"

Users == {"u1", "u2"}
\* req.user.email: u2 registered by phone only (User.email is optional).
EmailOf(u) == IF u = "u1" THEN "u1@example.com" ELSE Unset
\* The gateway customer of a user (customers.create with fail_existing: 0
\* answers the customer that already exists for the e-mail).
CustomerOf(u) == <<"cust", u>>

Plans == {"p1"}
PaymentIds == {"pay_1", "pay_2"}
SubIds == 1..MaxSubs

\* subscriptionSchema.status enum
StatusEnum ==
    {"created", "authenticated", "active", "pending", "halted", "cancelled",
     "completed", "expired", "paused", "pending_cancellation", "failed"}

\* Statuses the gateway reports in an entity; "unknown" stands for any string
\* outside the schema's enum.
GwStatuses == {"created", "active", "expired", "unknown"}

\* ------------------------------------------------------ gateway entities
\* A subscription entity as the gateway reports it (a fetch, an action's
\* answer, a webhook payload).  Optional numbers are <<>> when the field is
\* missing; a timestamp of 0 is a missing one.  dated says whether the
\* billing-cycle timestamps are filled in, ended_at is separate.
Entity(id, status, total, paid, remaining, dated, ended_at) ==
    [id |-> id, status |-> status, total_count |-> total,
     paid_count |-> paid, remaining_count |-> remaining,
     start_at |-> IF dated THEN 1 ELSE 0,
     end_at |-> IF dated THEN 9 ELSE 0,
     current_start |-> IF dated THEN 2 ELSE 0,
     current_end |-> IF dated THEN 3 ELSE 0,
     charge_at |-> IF dated THEN 4 ELSE 0,
     ended_at |-> ended_at]

\* The paid / remaining counts a gateway reports for a subscription of
\* `total` cycles: remaining_count is what is left of total, or is missing.
GwCounts(total) ==
    UNION {{<<(<<p>>), (<<>>)>>, <<(<<p>>), (<<total - p>>)>>} :
              p \in 0..(IF total < MaxCount THEN total ELSE MaxCount)}

\* ------------------------------------------------------------- JS helpers
\* const toDate = (ts) => (ts ? new Date(ts * 1000) : null)
toDate(ts) == IF ts = 0 THEN NoDate ELSE ts * 1000

\* new Date() when the clock (in seconds) reads t.
NewDate(t) == t * 1000

\* a ?? b on an optional number (<<>> is undefined, <<n>> is n).
Coalesce(a, b) == IF a = <<>> THEN b ELSE a

\* a || 0 on an optional number.
OrZero(a) == IF a = <<>> THEN 0 ELSE a[1]

Max(a, b) == IF a >= b THEN a ELSE b

\* ------------------------------------------------- models/Subscription.js
canCancel(sub) == sub.status \in {"active", "authenticated", "pending"}

\* canPause answering as canCancel does: what C1_GuardRejects must tell apart.
canPauseAsCancel(sub) == sub.status \in {"active", "authenticated", "pending"}

canPause(sub) == sub.status = "active"

canResume(sub) == sub.status = "paused"

isTerminal(sub) == sub.status \in {"cancelled", "completed", "expired"}

\* pre("save"): remainingCount is recomputed from totalCount and paidCount.
preSave(doc) ==
    LET diff == doc.totalCount - doc.paidCount
    IN  [doc EXCEPT !.remainingCount = IF diff >= 0 THEN diff ELSE 0]

\* Schema validation run by Subscription.create (save): the status enum and
\* the min: 0 of the three counters.
Validates(doc) ==
    /\ doc.status \in StatusEnum
    /\ doc.totalCount >= 0
    /\ doc.paidCount >= 0
    /\ doc.remainingCount >= 0

\* The document Subscription.create is given: the fields createSubscription
\* copies from the gateway's subscription entity.
NewDoc(userId, planId, customerId, subscription, t) ==
    [userId |-> userId, planId |-> planId, customerId |-> customerId,
     status |-> subscription.status,
     totalCount |-> subscription.total_count,
     paidCount |-> OrZero(subscription.paid_count),
     remainingCount |->
        Coalesce(subscription.remaining_count, <<subscription.total_count>>)[1],
     startAt |-> toDate(subscription.start_at),
     endAt |-> toDate(subscription.end_at),
     chargeAt |-> toDate(subscription.charge_at),
     currentStart |-> toDate(subscription.current_start),
     currentEnd |-> toDate(subscription.current_end),
     lastChargedAt |-> NoDate, lastPaymentId |-> Unset,
     lastFailedPaymentId |-> Unset, lastFailedAt |-> NoDate,
     failureReason |-> Unset,
     activatedAt |-> NoDate, cancelledAt |-> NoDate, pausedAt |-> NoDate,
     resumedAt |-> NoDate, completedAt |-> NoDate, haltedAt |-> NoDate,
     updatedAt |-> NewDate(t)]

\* An update that first reads the record and leaves a terminal one as it is:
\* what C22_PayloadOnly must tell apart.
ApplyUpdateUnlessTerminal(doc, update, t) ==
    IF doc.status \in {"cancelled", "completed", "expired"} THEN doc
    ELSE [f \in DOMAIN doc |->
            IF f = "updatedAt" THEN NewDate(t)
            ELSE IF f \in DOMAIN update THEN update[f]
            ELSE doc[f]]

\* The document after an update: the fields of the update replace the
\* document's, every other field is kept, and timestamps: true sets updatedAt.
\* No save hook and no validator runs on findOneAndUpdate.
ApplyUpdate(doc, update, t) ==
    [f \in DOMAIN doc |->
        IF f = "updatedAt" THEN NewDate(t)
        ELSE IF f \in DOMAIN update THEN update[f]
        ELSE doc[f]]

\* The update with upsert: true: what C19_NoRecordFromEvents must tell apart.
findOneAndUpsert(st, subscriptionId, update, t) ==
    [s \in DOMAIN st \cup {subscriptionId} |->
        ApplyUpdate(IF s \in DOMAIN st THEN st[s]
                    ELSE NewDoc(Unset, Unset, Unset,
                                Entity(s, "created", 0, <<0>>, <<>>, FALSE, 0), t),
                    IF s = subscriptionId THEN update ELSE <<>>,
                    IF s = subscriptionId THEN t ELSE st[s].updatedAt \div 1000)]

\* updateMany in place of findOneAndUpdate, reaching every record of the
\* collection: what C23_OtherRecordsUntouched must tell apart.
findOneAndUpdateMany(st, subscriptionId, update, t) ==
    IF subscriptionId \in DOMAIN st
    THEN [s \in DOMAIN st |-> ApplyUpdate(st[s], update, t)]
    ELSE st

\* Subscription.findOneAndUpdate({ subscriptionId }, update) on collection st.
findOneAndUpdate(st, subscriptionId, update, t) ==
    IF subscriptionId \in DOMAIN st
    THEN [st EXCEPT ![subscriptionId] = ApplyUpdate(@, update, t)]
    ELSE st

\* Subscription.create(doc) once validated: run pre("save"), insert.
Insert(st, subscriptionId, doc) ==
    [s \in DOMAIN st \cup {subscriptionId} |->
        IF s = subscriptionId THEN preSave(doc) ELSE st[s]]

\* ------------------------------------------------------------------ state
VARIABLES
    store,          \* the Subscription collection: subscriptionId -> document
    gateway,        \* the subscriptions the gateway has created, by id
    planActive,     \* the Plan collection: razorpayPlanId -> isActive
    now,            \* the clock, in seconds
    last,           \* the last request and what its caller saw
    inflight,       \* the requests waiting on the gateway or the store, by slot
    users,          \* the User collection: _id -> document
    issued,         \* the refresh tokens handed out in a response so far
    catalog,        \* the YoutubeVideo collection, in insertion order
    runs            \* the runs of the YouTube sync under way, by slot

vars ==
    <<store, gateway, planActive, now, last, inflight, users, issued, catalog, runs>>

\* What the subscription requests leave alone.
beside == <<inflight, users, issued, catalog, runs>>

\* process.env.RAZORPAY_SECRET, the key of the payment signature.
RazorpaySecret == "rzp_secret"

\* A webhook payload with neither payload.subscription nor payload.payment.
NoPayload == [subscription |-> <<>>, payment |-> <<>>]

\* What a caller sees of a request, and what the request was.
\*   op, user, sid   the handler, req.user._id, the subscription named
\*   plan            plan_id (create); planId (deletePlan)
\*   code, error     the HTTP status and which failure produced it
\*   gw              the gateway calls issued, in order
\*   gwOk, storeOk   whether the gateway calls / the store write were let through
\*   flag            cancel_at_cycle_end (cancel); req.rawBody was set (webhook);
\*                   razorpay_signature was sent (verify); the gateway
\*                   answers customers.fetch with the customer (create)
\*   status, paid    the status and paid_count the gateway reported
\*   days, deleted   daysOld and the deletedCount answered (cleanup)
\*   body            the parsed body (webhook); the gateway's answers (verify)
\*   verified, exact (webhook and verify, see there)
Obs(op, user, sid, code, error, gw) ==
    [op |-> op, user |-> user, sid |-> sid, plan |-> Unset,
     code |-> code, error |-> error,
     gw |-> gw, gwOk |-> TRUE, storeOk |-> TRUE, flag |-> FALSE,
     body |-> [event |-> Unset, payload |-> NoPayload],
     verified |-> FALSE, exact |-> FALSE,
     status |-> Unset, paid |-> 0,
     days |-> 0, deleted |-> 0]

\* The requests a server can be handling at once, and a slot handling none.
\*   op, pc     the handler and the await it is waiting on
\*   user, sid  req.user._id and the subscription named
\*   input      the request (a delivery, a create request, an action's flag)
\*   t          new Date() when the handler built what it writes
\*   found      the record as it was when the request arrived
\*   write      the update or the document handed to the store
Slots == 1..MaxInflight

\*   gw         the gateway calls issued so far
NoFlight ==
    [op |-> "idle", pc |-> "idle", user |-> Unset, sid |-> 0,
     input |-> <<>>, t |-> 0, found |-> <<>>, write |-> <<>>, gw |-> <<>>]

\* A run of syncYouTubeVideos, and a slot in which none is under way.
\*   pc          the await the run is waiting on
\*   pageToken   the page it asks for: 0 is the first (pageToken = "")
\*   items       the video items of data.items not yet upserted
\*   next        data.nextPageToken, if the page has one
\*   write       what the store found for the upsert it is about to write
NoRun == [pc |-> "idle", pageToken |-> 0, items |-> <<>>, next |-> <<>>, write |-> Unset]

Init ==
    /\ inflight = [k \in Slots |-> NoFlight]
    /\ users = <<>>
    /\ issued = {}
    /\ catalog = <<>>
    /\ runs = [k \in Slots |-> NoRun]
    /\ store = <<>>
    /\ gateway = <<>>
    /\ planActive = [p \in Plans |-> TRUE]
    /\ now = 1
    /\ last = Obs("start", Unset, 0, 0, Unset, <<>>)

\* One request is handled: the clock moves on.
Tick == now' = now + 1

\* A delete that also cancels the plan's subscriptions: what
\* C32_InactivePlan must tell apart.
deletePlanCascading(planId) ==
    /\ Tick
    /\ planId \in DOMAIN planActive
    /\ planActive' = [planActive EXCEPT ![planId] = FALSE]
    /\ store' = [s \in DOMAIN store |->
                    IF store[s].planId = planId
                    THEN [store[s] EXCEPT !.status = "cancelled"]
                    ELSE store[s]]
    /\ last' = [Obs("deletePlan", Unset, 0, 200, Unset, <<>>) EXCEPT !.plan = planId]
    /\ UNCHANGED gateway

\* ------------------------------------------------------------ deletePlan
deletePlan(planId) ==
    /\ Tick
    /\ IF planId \in DOMAIN planActive
       THEN /\ planActive' = [planActive EXCEPT ![planId] = FALSE]
            /\ last' = [Obs("deletePlan", Unset, 0, 200, Unset, <<>>)
                           EXCEPT !.plan = planId]
       ELSE /\ planActive' = planActive
            /\ last' = [Obs("deletePlan", Unset, 0, 404, "not_found", <<>>)
                           EXCEPT !.plan = planId]
    /\ UNCHANGED <<store, gateway>>

\* ---------------------------------------------------- createSubscription
\* The statuses of an existing subscription of the same user and plan that
\* make create refuse.
\* The duplicate check without "pending": what C3_DuplicateRefused must tell apart.
BlockingStatusesNoPending == {"created", "authenticated", "active"}

BlockingStatuses == {"created", "authenticated", "active", "pending"}

\* Subscription.findOne({ userId, planId: plan_id, status: { $in: [...] } })
existingSubscription(st, userId, plan_id) ==
    \E s \in DOMAIN st :
        /\ st[s].userId = userId
        /\ st[s].planId = plan_id
        /\ st[s].status \in BlockingStatuses

\* A lookup that never finds the user's customer: what C24_CustomerReused
\* must tell apart.
existingCustomerNever(st, userId) == FALSE

\* Subscription.findOne({ userId, customerId: { $exists: true, $ne: null } })
existingCustomer(st, userId) ==
    \E s \in DOMAIN st : st[s].userId = userId /\ st[s].customerId # Unset

\* existingCustomer.customerId: the customerId of the record that findOne
\* answers.  Every record of a user carries the same one, since
\* customers.create with fail_existing: 0 answers the customer the gateway
\* already holds for the user's email.
existingCustomerId(st, userId) ==
    LET found == {s \in DOMAIN st :
                    st[s].userId = userId /\ st[s].customerId # Unset}
    IN st[CHOOSE s \in found : \A r \in found : s <= r].customerId

\* The whole handler.  fail names the call the environment lets fail (none,
\* a gateway call, or the store's insert); subscription is the entity the
\* gateway answers to subscriptions.create.
createSubscription(userId, plan_id, total_count, status, dated, fail) ==
    LET id == Len(gateway) + 1
        total == IF total_count = 0 THEN DefaultTotalCount ELSE total_count
        subscription == Entity(id, status, total, <<0>>, <<total>>, dated, 0)
        seen(sid, code, error, gw) ==
            [Obs("create", userId, sid, code, error, gw)
                EXCEPT !.plan = plan_id, !.status = status,
                       !.flag = (fail # "customers.fetch"),
                       !.gwOk = (error # "gateway"), !.storeOk = (error # "store")]
        refuse(code, error) ==
            /\ last' = seen(0, code, error, <<>>)
            /\ UNCHANGED <<store, gateway>>
        fetched == existingCustomer(store, userId) /\ fail # "customers.fetch"
        customerCalls ==
            (IF existingCustomer(store, userId) THEN <<"customers.fetch">> ELSE <<>>)
            \o (IF fetched THEN <<>> ELSE <<"customers.create">>)
        customer == IF fetched THEN existingCustomerId(store, userId)
                    ELSE CustomerOf(userId)
        doc == NewDoc(userId, plan_id, customer, subscription, now)
    IN
    /\ Tick
    /\ Len(gateway) < MaxSubs
    /\ UNCHANGED planActive
    /\ IF plan_id = Unset THEN refuse(400, "plan_id_required")
       ELSE IF EmailOf(userId) = Unset THEN refuse(400, "email_required")
       ELSE IF ~(plan_id \in DOMAIN planActive /\ planActive[plan_id])
       THEN refuse(400, "plan_not_available")
       ELSE IF existingSubscription(store, userId, plan_id)
       THEN refuse(400, "already_subscribed")
       ELSE IF ~fetched /\ fail = "customers.create"
       THEN /\ last' = seen(0, 500, "gateway", customerCalls)
            /\ UNCHANGED <<store, gateway>>
       ELSE IF fail = "subscriptions.create"
       THEN /\ last' = seen(0, 500, "gateway",
                               customerCalls \o <<"subscriptions.create">>)
            /\ UNCHANGED <<store, gateway>>
       ELSE /\ gateway' = Append(gateway,
                              [plan_id |-> plan_id, total_count |-> total,
                               customer_id |-> customer])
            /\ IF fail = "store" \/ ~Validates(doc)
               THEN /\ store' = store
                    /\ last' = seen(id, 500, "store",
                                     customerCalls \o <<"subscriptions.create">>)
               ELSE /\ store' = Insert(store, id, doc)
                    /\ last' = seen(id, 201, Unset,
                                     customerCalls \o <<"subscriptions.create">>)

\* --------------------------------------- cancel / pause / resume updates
\* The update cancelSubscription writes; cancelled is the gateway's answer.
\* cancelUpdate without its cycle-end branch: what C2_ActionStatus must tell apart.
cancelUpdateImmediate(cancel_at_cycle_end, cancelled, t) ==
    [status |-> "cancelled",
     cancelledAt |-> NewDate(t),
     endAt |-> IF cancelled.ended_at # 0 THEN toDate(cancelled.ended_at) ELSE NoDate]

cancelUpdate(cancel_at_cycle_end, cancelled, t) ==
    [status |-> IF cancel_at_cycle_end THEN "pending_cancellation" ELSE "cancelled",
     cancelledAt |-> NewDate(t),
     endAt |-> IF cancelled.ended_at # 0 THEN toDate(cancelled.ended_at) ELSE NoDate]

pauseUpdate(paused, t) ==
    [status |-> "paused",
     pausedAt |-> NewDate(t),
     currentStart |-> toDate(paused.current_start),
     currentEnd |-> toDate(paused.current_end),
     chargeAt |-> toDate(paused.charge_at)]

resumeUpdate(resumed, t) ==
    [status |-> "active",
     resumedAt |-> NewDate(t),
     currentStart |-> toDate(resumed.current_start),
     currentEnd |-> toDate(resumed.current_end),
     chargeAt |-> toDate(resumed.charge_at)]

\* The lookup without the user: what C15_OwnerOnly must tell apart.
findOwnedAnyUser(st, subscriptionId, userId) == subscriptionId \in DOMAIN st

\* Subscription.findOne({ subscriptionId, userId }) finds a document.
findOwned(st, subscriptionId, userId) ==
    /\ subscriptionId \in DOMAIN st
    /\ st[subscriptionId].userId = userId

\* The user action writing the store before it calls the gateway: what
\* C16_GatewayFailure must tell apart.
userActionWriteFirst(op, userId, subscriptionId, flag, allowed, call, update, fail) ==
    LET found == subscriptionId \in DOMAIN store
                 /\ store[subscriptionId].userId = userId
        seen(code, error, gw) ==
            [Obs(op, userId, subscriptionId, code, error, gw)
                EXCEPT !.flag = flag, !.gwOk = (error # "gateway"),
                       !.storeOk = (error # "store")]
    IN
    /\ now' = now + 1
    /\ UNCHANGED <<gateway, planActive>>
    /\ IF ~found
       THEN store' = store /\ last' = seen(404, "not_found", <<>>)
       ELSE IF ~allowed
       THEN store' = store /\ last' = seen(400, "invalid_transition", <<>>)
       ELSE IF fail = "store"
       THEN store' = store /\ last' = seen(500, "store", <<>>)
       ELSE /\ store' = [store EXCEPT ![subscriptionId] =
                            [f \in DOMAIN @ |->
                                IF f = "updatedAt" THEN now * 1000
                                ELSE IF f \in DOMAIN update THEN update[f]
                                ELSE @[f]]]
            /\ last' = IF fail = "gateway" THEN seen(500, "gateway", <<call>>)
                       ELSE seen(200, Unset, <<call>>)

\* The shape the three user actions share: load by (subscriptionId, userId),
\* check the status, call the gateway, update the document.  allowed is the
\* can...() check's answer, call the gateway call's name, update the update.
userAction(op, userId, subscriptionId, flag, allowed, call, update, fail) ==
    LET owned == findOwned(store, subscriptionId, userId)
    IN
    /\ Tick
    /\ UNCHANGED <<gateway, planActive>>
    /\ IF ~owned
       THEN /\ store' = store
            /\ last' = [Obs(op, userId, subscriptionId, 404, "not_found", <<>>)
                           EXCEPT !.flag = flag]
       ELSE IF ~allowed
       THEN /\ store' = store
            /\ last' = [Obs(op, userId, subscriptionId, 400, "invalid_transition", <<>>)
                           EXCEPT !.flag = flag]
       ELSE IF fail = "gateway"
       THEN /\ store' = store
            /\ last' = [Obs(op, userId, subscriptionId, 500, "gateway", <<call>>)
                           EXCEPT !.flag = flag, !.gwOk = FALSE]
       ELSE IF fail = "store"
       THEN /\ store' = store
            /\ last' = [Obs(op, userId, subscriptionId, 500, "store", <<call>>)
                           EXCEPT !.flag = flag, !.storeOk = FALSE]
       ELSE /\ store' = findOneAndUpdate(store, subscriptionId, update, now)
            /\ last' = [Obs(op, userId, subscriptionId, 200, Unset, <<call>>)
                           EXCEPT !.flag = flag]

cancelSubscription(userId, subscriptionId, cancel_at_cycle_end, ended_at, fail) ==
    userAction("cancel", userId, subscriptionId, cancel_at_cycle_end,
               subscriptionId \in DOMAIN store /\ canCancel(store[subscriptionId]),
               "subscriptions.cancel",
               cancelUpdate(cancel_at_cycle_end,
                            Entity(subscriptionId, "cancelled", 0, <<>>, <<>>, FALSE, ended_at),
                            now),
               fail)

pauseSubscription(userId, subscriptionId, dated, fail) ==
    userAction("pause", userId, subscriptionId, FALSE,
               subscriptionId \in DOMAIN store /\ canPause(store[subscriptionId]),
               "subscriptions.pause",
               pauseUpdate(Entity(subscriptionId, "paused", 0, <<>>, <<>>, dated, 0), now),
               fail)

resumeSubscription(userId, subscriptionId, dated, fail) ==
    userAction("resume", userId, subscriptionId, FALSE,
               subscriptionId \in DOMAIN store /\ canResume(store[subscriptionId]),
               "subscriptions.resume",
               resumeUpdate(Entity(subscriptionId, "active", 0, <<>>, <<>>, dated, 0), now),
               fail)

\* ---------------------------------------------------------- signatures
\* crypto.createHmac("sha256", key).update(message).digest("hex"): a keyed
\* digest, taken to be collision-free (two digests are equal only when key
\* and message are).
HmacSha256Hex(key, message) == <<"hmac-sha256", key, message>>

\* `${razorpay_payment_id}|${razorpay_subscription_id}`
PaymentMessage(razorpay_payment_id, razorpay_subscription_id) ==
    <<razorpay_payment_id, "|", razorpay_subscription_id>>

\* ------------------------------------------- verifySubscriptionPayment
\* The mismatch update without its status: what C11_MismatchMarksFailed must
\* tell apart.
invalidSignatureReasonOnly == [failureReason |-> "Invalid signature"]

\* A mismatch that cancels the record: what C26_AuthorisedOrMarkedFailed must
\* tell apart.
invalidSignatureCancels ==
    [status |-> "cancelled", failureReason |-> "Invalid signature"]

\* The update written when the signature does not match.
invalidSignatureUpdate ==
    [status |-> "failed", failureReason |-> "Invalid signature"]

\* The verified update stamping activatedAt whatever the status: what
\* C12_VerifiedUpdate must tell apart.
verifiedUpdateAlwaysActivated(razorpay_payment_id, subscription, created_at, t) ==
    [lastPaymentId |-> razorpay_payment_id,
     status |-> subscription.status,
     paidCount |-> subscription.paid_count[1],
     remainingCount |->
        Coalesce(subscription.remaining_count, <<subscription.total_count>>)[1],
     lastChargedAt |-> IF created_at # 0 THEN toDate(created_at) ELSE NewDate(t),
     currentStart |-> toDate(subscription.current_start),
     currentEnd |-> toDate(subscription.current_end),
     chargeAt |-> toDate(subscription.charge_at),
     activatedAt |-> NewDate(t)]

\* The update written from the gateway's subscription and payment.  An
\* undefined activatedAt is no field of the update (the key is dropped).
verifiedUpdate(razorpay_payment_id, subscription, created_at, t) ==
    LET base ==
            [lastPaymentId |-> razorpay_payment_id,
             status |-> subscription.status,
             paidCount |-> subscription.paid_count[1],
             remainingCount |->
                Coalesce(subscription.remaining_count, <<subscription.total_count>>)[1],
             lastChargedAt |-> IF created_at # 0 THEN toDate(created_at) ELSE NewDate(t),
             currentStart |-> toDate(subscription.current_start),
             currentEnd |-> toDate(subscription.current_end),
             chargeAt |-> toDate(subscription.charge_at)]
    IN  IF subscription.status = "active"
        THEN [f \in DOMAIN base \cup {"activatedAt"} |->
                 IF f = "activatedAt" THEN NewDate(t) ELSE base[f]]
        ELSE base

\* The whole handler.  razorpay_signature is <<>> when the field is missing;
\* subscription and created_at are what the gateway answers to the two
\* fetches; fail names the call the environment lets fail.
verifySubscriptionPayment(razorpay_payment_id, razorpay_subscription_id, razorpay_signature, subscription, created_at, fail) ==
    LET sid == razorpay_subscription_id
        generatedSignature ==
            HmacSha256Hex(RazorpaySecret, PaymentMessage(razorpay_payment_id, sid))
        seen(code, error, gw) ==
            [Obs("verify", Unset, sid, code, error, gw)
                EXCEPT !.status = subscription.status,
                       !.paid = subscription.paid_count[1],
                       !.flag = (razorpay_signature # <<>>),
                       !.body = IF Len(gw) = 2
                                THEN [event |-> "verify",
                                      payload |->
                                        [subscription |-> <<subscription>>,
                                         payment |-> <<[id |-> razorpay_payment_id,
                                                        created_at |-> created_at]>>]]
                                ELSE @,
                       !.verified = (generatedSignature = razorpay_signature),
                       !.gwOk = (error # "gateway"),
                       !.storeOk = (error # "store")]
    IN
    /\ Tick
    /\ UNCHANGED <<gateway, planActive>>
    /\ IF razorpay_signature = <<>>
       THEN /\ store' = store
            /\ last' = seen(400, "missing_fields", <<>>)
       ELSE IF generatedSignature # razorpay_signature
       THEN IF fail = "store"
            THEN /\ store' = store
                 /\ last' = seen(500, "store", <<>>)
            ELSE /\ store' = findOneAndUpdate(store, sid, invalidSignatureUpdate, now)
                 /\ last' = seen(400, "invalid_signature", <<>>)
       ELSE IF fail = "subscriptions.fetch" \/ sid > Len(gateway)
       THEN /\ store' = store
            /\ last' = seen(500, "gateway", <<"subscriptions.fetch">>)
       ELSE IF fail = "payments.fetch"
       THEN /\ store' = store
            /\ last' = seen(500, "gateway", <<"subscriptions.fetch", "payments.fetch">>)
       ELSE IF fail = "store"
       THEN /\ store' = store
            /\ last' = seen(500, "store", <<"subscriptions.fetch", "payments.fetch">>)
       ELSE /\ store' = findOneAndUpdate(store, sid,
                            verifiedUpdate(razorpay_payment_id, subscription, created_at, now),
                            now)
            /\ last' = IF sid \in DOMAIN store
                       THEN seen(200, Unset, <<"subscriptions.fetch", "payments.fetch">>)
                       ELSE seen(404, "not_found", <<"subscriptions.fetch", "payments.fetch">>)

\* ---------------------------------------------- reconciliation handlers
\* The update each handler passes to findOneAndUpdate.
activatedUpdate(subscription, t) ==
    [status |-> "active",
     startAt |-> toDate(subscription.start_at),
     endAt |-> toDate(subscription.end_at),
     currentStart |-> toDate(subscription.current_start),
     currentEnd |-> toDate(subscription.current_end),
     chargeAt |-> toDate(subscription.charge_at),
     activatedAt |-> NewDate(t),
     paidCount |-> OrZero(subscription.paid_count),
     remainingCount |->
        Coalesce(subscription.remaining_count, <<subscription.total_count>>)[1]]

authenticatedUpdate == [status |-> "authenticated"]

chargedUpdate(payment, subscription, t) ==
    [status |-> subscription.status,
     lastPaymentId |-> payment.id,
     lastChargedAt |-> NewDate(t),
     paidCount |-> subscription.paid_count[1],
     remainingCount |->
        Coalesce(subscription.remaining_count, <<subscription.total_count>>)[1],
     currentStart |-> toDate(subscription.current_start),
     currentEnd |-> toDate(subscription.current_end),
     chargeAt |-> toDate(subscription.charge_at)]

completedUpdate(subscription, t) ==
    [status |-> "completed",
     completedAt |-> NewDate(t),
     endAt |-> toDate(subscription.end_at)]

cancelledUpdate(subscription, t) ==
    [status |-> "cancelled",
     cancelledAt |-> NewDate(t),
     endAt |-> IF subscription.ended_at # 0 THEN toDate(subscription.ended_at) ELSE NoDate]

pausedUpdate(subscription, t) ==
    [status |-> "paused",
     pausedAt |-> NewDate(t),
     currentStart |-> toDate(subscription.current_start),
     currentEnd |-> toDate(subscription.current_end),
     chargeAt |-> toDate(subscription.charge_at)]

\* The resumed handler writing what the paused handler writes: what
\* C9_EventStatus must tell apart.
resumedUpdateAsPaused(subscription, t) == pausedUpdate(subscription, t)

resumedUpdate(subscription, t) ==
    [status |-> "active",
     resumedAt |-> NewDate(t),
     currentStart |-> toDate(subscription.current_start),
     currentEnd |-> toDate(subscription.current_end),
     chargeAt |-> toDate(subscription.charge_at)]

pendingUpdate == [status |-> "pending"]

haltedUpdate(t) == [status |-> "halted", haltedAt |-> NewDate(t)]

\* The payment.failed update also halting the subscription: what
\* C17_PaymentFailedFrame must tell apart.
paymentFailedUpdateHalting(payment, t) ==
    [status |-> "halted",
     lastFailedPaymentId |-> payment.id,
     lastFailedAt |-> NewDate(t),
     failureReason |->
        IF payment.error_description # Unset
        THEN payment.error_description ELSE "Payment failed"]

paymentFailedUpdate(payment, t) ==
    [lastFailedPaymentId |-> payment.id,
     lastFailedAt |-> NewDate(t),
     failureReason |->
        IF payment.error_description # Unset
        THEN payment.error_description ELSE "Payment failed"]

\* A payload is [subscription |-> <<entity>> or <<>>, payment |-> <<entity>>
\* or <<>>]: <<>> is a missing payload.subscription / payload.payment, and
\* reading its .entity throws inside the handler's try, which logs and returns.
handleSubscriptionActivated(st, payload, t) ==
    IF payload.subscription = <<>> THEN st
    ELSE findOneAndUpdate(st, payload.subscription[1].id,
                          activatedUpdate(payload.subscription[1], t), t)

handleSubscriptionAuthenticated(st, payload, t) ==
    IF payload.subscription = <<>> THEN st
    ELSE findOneAndUpdate(st, payload.subscription[1].id, authenticatedUpdate, t)

handleSubscriptionCharged(st, payload, t) ==
    IF payload.payment = <<>> \/ payload.subscription = <<>> THEN st
    ELSE findOneAndUpdate(st, payload.subscription[1].id,
                          chargedUpdate(payload.payment[1], payload.subscription[1], t), t)

handleSubscriptionCompleted(st, payload, t) ==
    IF payload.subscription = <<>> THEN st
    ELSE findOneAndUpdate(st, payload.subscription[1].id,
                          completedUpdate(payload.subscription[1], t), t)

handleSubscriptionCancelled(st, payload, t) ==
    IF payload.subscription = <<>> THEN st
    ELSE findOneAndUpdate(st, payload.subscription[1].id,
                          cancelledUpdate(payload.subscription[1], t), t)

handleSubscriptionPaused(st, payload, t) ==
    IF payload.subscription = <<>> THEN st
    ELSE findOneAndUpdate(st, payload.subscription[1].id,
                          pausedUpdate(payload.subscription[1], t), t)

handleSubscriptionResumed(st, payload, t) ==
    IF payload.subscription = <<>> THEN st
    ELSE findOneAndUpdate(st, payload.subscription[1].id,
                          resumedUpdate(payload.subscription[1], t), t)

handleSubscriptionPending(st, payload, t) ==
    IF payload.subscription = <<>> THEN st
    ELSE findOneAndUpdate(st, payload.subscription[1].id, pendingUpdate, t)

handleSubscriptionHalted(st, payload, t) ==
    IF payload.subscription = <<>> THEN st
    ELSE findOneAndUpdate(st, payload.subscription[1].id, haltedUpdate(t), t)

handlePaymentFailed(st, payload, t) ==
    IF payload.payment = <<>> THEN st
    ELSE IF payload.payment[1].subscription_id # 0
    THEN findOneAndUpdate(st, payload.payment[1].subscription_id,
                          paymentFailedUpdate(payload.payment[1], t), t)
    ELSE st

\* The event names the switch of subscriptionWebhook has a case for.
HandledEvents ==
    {"subscription.activated", "subscription.charged", "subscription.completed",
     "subscription.cancelled", "subscription.paused", "subscription.resumed",
     "subscription.pending", "subscription.halted", "subscription.authenticated",
     "payment.failed"}

\* switch (event) { ... }
dispatch(st, event, payload, t) ==
    CASE event = "subscription.activated" -> handleSubscriptionActivated(st, payload, t)
      [] event = "subscription.charged" -> handleSubscriptionCharged(st, payload, t)
      [] event = "subscription.completed" -> handleSubscriptionCompleted(st, payload, t)
      [] event = "subscription.cancelled" -> handleSubscriptionCancelled(st, payload, t)
      [] event = "subscription.paused" -> handleSubscriptionPaused(st, payload, t)
      [] event = "subscription.resumed" -> handleSubscriptionResumed(st, payload, t)
      [] event = "subscription.pending" -> handleSubscriptionPending(st, payload, t)
      [] event = "subscription.halted" -> handleSubscriptionHalted(st, payload, t)
      [] event = "subscription.authenticated" ->
            handleSubscriptionAuthenticated(st, payload, t)
      [] event = "payment.failed" -> handlePaymentFailed(st, payload, t)
      [] OTHER -> st

\* --------------------------------------------- the webhook's middleware
\* The bytes of a request body: the JSON document they spell (json is FALSE
\* when they spell none), its layout (white space between the tokens) and
\* one character of a string in it: the byte 61 ("a"), the bytes EF BF BD
\* (U+FFFD) or the byte FF, which is no UTF-8.
\*
\* req.body.toString(): the buffer decoded as UTF-8; a byte that is no UTF-8
\* decodes to U+FFFD.
toString(bytes) ==
    [doc |-> bytes.doc, layout |-> bytes.layout,
     ch |-> IF bytes.mark = "61" THEN "a" ELSE "U+FFFD"]

\* hmac.update(string): the string's UTF-8 bytes.
Utf8Bytes(string) ==
    [doc |-> string.doc, layout |-> string.layout,
     mark |-> IF string.ch = "a" THEN "61" ELSE "efbfbd"]

\* JSON.parse(req.rawBody || "{}"), {} when it throws: the document, whatever
\* its layout.
JSONparse(string) ==
    IF string.doc.json
    THEN [event |-> string.doc.event, payload |-> string.doc.payload]
    ELSE [event |-> Unset, payload |-> NoPayload]

\* The string subscriptionWebhook takes the digest of.
SignedString(req) == req.rawBody[1]

\* The subscription a payload names (0 when it names none).
TargetOf(body) ==
    IF body.event = "payment.failed"
    THEN IF body.payload.payment = <<>> THEN 0
         ELSE body.payload.payment[1].subscription_id
    ELSE IF body.payload.subscription = <<>> THEN 0
         ELSE body.payload.subscription[1].id

\* A handler answering 401 to a signature that does not match: what
\* C5_AlwaysAcknowledged must tell apart.
webhookStatusRejecting(outcome) == IF outcome = "bad_signature" THEN 401 ELSE 200

\* ---------------------------------------------------- subscriptionWebhook
\* Every return of the handler is res.status(200).json({ received: true }).
webhookStatus(outcome) == 200

\* The whole delivery: the middleware of app.js, then the handler.
\*   webhookSecret      process.env.RAZORPAY_WEBHOOK_SECRET (Unset when missing)
\*   route              "app": the route of app.js, which sets req.rawBody;
\*                      "router": the route of payment.routes.js, which does not
\*   receivedSignature  the x-razorpay-signature header (<<>> when missing)
\*   bytes              the request body
\*   storeOk            whether the store lets the handler's update through
subscriptionWebhook(webhookSecret, route, receivedSignature, bytes, storeOk) ==
    LET req == [rawBody |-> IF route = "app" THEN <<toString(bytes)>> ELSE <<>>,
                body |-> JSONparse(toString(bytes))]
        expectedSignature ==
            HmacSha256Hex(webhookSecret, Utf8Bytes(SignedString(req)))
        event == req.body.event
        entity == req.body.payload.subscription
        seen(outcome, verified) ==
            [Obs("webhook", Unset, TargetOf(req.body), webhookStatus(outcome), outcome, <<>>)
                EXCEPT !.body = req.body,
                       !.verified = verified,
                       !.exact = /\ webhookSecret # Unset
                                 /\ receivedSignature =
                                        HmacSha256Hex(webhookSecret, bytes),
                       !.storeOk = storeOk,
                       !.flag = (route = "app"),
                       !.status = IF entity = <<>> THEN Unset ELSE entity[1].status,
                       !.paid = IF entity = <<>> THEN 0 ELSE OrZero(entity[1].paid_count)]
    IN
    /\ Tick
    /\ UNCHANGED <<gateway, planActive>>
    /\ IF webhookSecret = Unset
       THEN /\ store' = store
            /\ last' = seen("no_secret", FALSE)
       ELSE IF receivedSignature = <<>>
       THEN /\ store' = store
            /\ last' = seen("no_signature", FALSE)
       ELSE IF req.rawBody = <<>>
       THEN /\ store' = store
            /\ last' = seen("no_raw_body", FALSE)
       ELSE IF receivedSignature # expectedSignature
       THEN /\ store' = store
            /\ last' = seen("bad_signature", FALSE)
       ELSE /\ store' = IF storeOk THEN dispatch(store, event, req.body.payload, now)
                        ELSE store
            /\ last' = seen(IF event \in HandledEvents THEN Unset ELSE "unhandled", TRUE)

\* ------------------------------------------------------- the environment
\* What the gateway sends and what anybody else may send to the webhook.
WebhookKey == "whsec"

Doc(event, subscription, payment) ==
    [json |-> TRUE, event |-> event,
     payload |-> [subscription |-> subscription, payment |-> payment]]

NotJson == [json |-> FALSE, event |-> Unset, payload |-> NoPayload]

Payment(id, subscription_id, error_description) ==
    [id |-> id, subscription_id |-> subscription_id,
     error_description |-> error_description]

\* The total_count the gateway holds for subscription id.
GwTotal(id) == IF id <= Len(gateway) THEN gateway[id].total_count ELSE MaxCount

\* An entity with nothing but its id and status filled in.
Plain(id, status) == Entity(id, status, GwTotal(id), <<0>>, <<>>, FALSE, 0)

\* The documents of the events the gateway sends about subscription id.
EventDocs(id) ==
    {Doc("subscription.activated",
         <<Entity(id, "active", GwTotal(id), c[1], c[2], TRUE, 0)>>, <<>>) :
        c \in GwCounts(GwTotal(id)) \cup {<<(<<>>), (<<GwTotal(id)>>)>>}}
    \cup
    {Doc("subscription.charged",
         <<Entity(id, status, GwTotal(id), c[1], c[2], TRUE, 0)>>,
         <<Payment("pay_1", id, Unset)>>) :
        status \in GwStatuses, c \in GwCounts(GwTotal(id))}
    \cup
    {Doc(e, <<Entity(id, "active", GwTotal(id), <<0>>, <<>>, TRUE, 5)>>,
         <<Payment("pay_2", id, "card declined")>>) :
        e \in HandledEvents}

\* One document per event name, with the plainest payload: no timestamps, no
\* remaining_count, no error description.
PlainDocs(id) ==
    {Doc(e, <<Plain(id, "active")>>, <<Payment("pay_1", id, Unset)>>) :
        e \in HandledEvents \cup {"subscription.updated"}}

\* Documents whose payload lacks what the handler reads.
BrokenDocs ==
    {Doc(e, <<>>, <<>>) : e \in {"subscription.charged", "payment.failed"}}
    \cup {Doc("payment.failed", <<>>, <<Payment("pay_1", 0, Unset)>>)}

Bytes(doc, layout, mark) == [doc |-> doc, layout |-> layout, mark |-> mark]

Delivery(secret, route, signature, bytes, storeOk) ==
    [secret |-> secret, route |-> route, signature |-> signature,
     bytes |-> bytes, storeOk |-> storeOk]

\* A delivery of the gateway: signed with the webhook key over the bytes sent.
Signed(doc, storeOk) ==
    Delivery(WebhookKey, "app",
             HmacSha256Hex(WebhookKey, Bytes(doc, "compact", "61")),
             Bytes(doc, "compact", "61"), storeOk)

\* The deliveries the gateway makes: every event of a subscription it has
\* created, the plain events of any subscription, a broken payload, and a
\* plain event whose store update fails.
GatewayDeliveries ==
    {Signed(doc, TRUE) :
        doc \in UNION {EventDocs(id) : id \in 1..Len(gateway)}
                \cup UNION {PlainDocs(id) : id \in SubIds}
                \cup BrokenDocs}
    \cup
    {Signed(doc, FALSE) : doc \in PlainDocs(1)}

\* The bodies the other deliveries carry: one event, in every layout and with
\* every character, and a body that is no JSON.
ProbeDoc == Doc("subscription.halted", <<Plain(1, "halted")>>, <<>>)

ProbeBytes ==
    {Bytes(ProbeDoc, layout, mark) :
        layout \in {"compact", "spaced"}, mark \in {"61", "efbfbd", "ff"}}
    \cup {Bytes(NotJson, "compact", "61"),
          Bytes(Doc("subscription.cancelled", <<Plain(1, "cancelled")>>, <<>>),
                "compact", "61")}

\* The signatures a sender may put on bytes b: none, one that is no digest, or
\* the digest, under the webhook key or another, of b or of bytes that differ
\* from b in one respect (the layout, the character, the document).
ProbeSignatures(b) ==
    {<<>>, <<"garbage">>}
    \cup {HmacSha256Hex(key, signed) :
            key \in {WebhookKey, "attacker_key"},
            signed \in {x \in ProbeBytes :
                          \/ x = b
                          \/ x.doc = b.doc /\ x.mark = b.mark
                          \/ x.doc = b.doc /\ x.layout = b.layout
                          \/ x.layout = b.layout /\ x.mark = b.mark}}

ProbeDeliveries ==
    UNION {{Delivery(WebhookKey, "app", sig, b, TRUE) : sig \in ProbeSignatures(b)} :
              b \in ProbeBytes}
    \cup
    {Delivery(secret, route, HmacSha256Hex(WebhookKey, Bytes(ProbeDoc, "compact", "61")),
              Bytes(ProbeDoc, "compact", "61"), TRUE) :
        secret \in {Unset, WebhookKey}, route \in {"app", "router"}}

\* The requests to verify: the payment, the subscription, the signature sent,
\* and what the gateway answers to the two fetches.
VerifyRequest(pid, sid, signature, subscription, created_at, fail) ==
    [pid |-> pid, sid |-> sid, signature |-> signature,
     subscription |-> subscription, created_at |-> created_at, fail |-> fail]

GatewaySignature(pid, sid) == HmacSha256Hex(RazorpaySecret, PaymentMessage(pid, sid))

VerifyRequests ==
    \* the gateway's signature, and every answer to the fetches
    UNION {{VerifyRequest("pay_1", sid, GatewaySignature("pay_1", sid), Entity(sid, status, GwTotal(sid), c[1], c[2], TRUE, 0), 7, "none") :
               status \in GwStatuses, c \in GwCounts(GwTotal(sid))} :
              sid \in 1..Len(gateway)}
    \cup
    \* the gateway's signature, a plain answer, and every failure
    {VerifyRequest(pid, sid, GatewaySignature(pid, sid), Plain(sid, "active"), 0, fail) :
        pid \in PaymentIds, sid \in SubIds,
        fail \in {"none", "subscriptions.fetch", "payments.fetch", "store"}}
    \cup
    \* no signature, another key's, or the gateway's for another payment
    UNION {{VerifyRequest("pay_1", sid, sig, Plain(sid, "active"), 0, fail) :
               sig \in {<<>>, GatewaySignature("pay_2", sid),
                        HmacSha256Hex("attacker_key", PaymentMessage("pay_1", sid))},
               fail \in {"none", "store"}} :
              sid \in SubIds}

\* The requests to create: the user, the plan and total_count asked for, the
\* status and timestamps of the gateway's answer, and the call that fails.
CreateRequest(userId, plan_id, total_count, status, dated, fail) ==
    [userId |-> userId, plan_id |-> plan_id, total_count |-> total_count,
     status |-> status, dated |-> dated, fail |-> fail]

CreateRequests ==
    {CreateRequest("u1", plan_id, total_count, status, dated, "none") :
        plan_id \in Plans, total_count \in {0, MaxCount},
        status \in GwStatuses, dated \in BOOLEAN}
    \cup
    {CreateRequest("u1", plan_id, MaxCount, "created", FALSE, fail) :
        plan_id \in Plans,
        fail \in {"customers.fetch", "customers.create", "subscriptions.create", "store"}}
    \cup
    {CreateRequest(userId, plan_id, MaxCount, "created", FALSE, "none") :
        userId \in Users, plan_id \in Plans \cup {Unset, "p_unknown"}}

Fails == {"none", "gateway", "store"}

Requests ==
    \/ \E planId \in Plans \cup {"p_unknown"} : deletePlan(planId)
    \/ \E r \in CreateRequests :
            createSubscription(r.userId, r.plan_id, r.total_count, r.status, r.dated, r.fail)
    \/ \E r \in VerifyRequests :
            verifySubscriptionPayment(r.pid, r.sid, r.signature, r.subscription, r.created_at, r.fail)
    \/ \E userId \in Users, subscriptionId \in SubIds,
          cancel_at_cycle_end \in BOOLEAN, ended_at \in {0, 5}, fail \in Fails :
            cancelSubscription(userId, subscriptionId, cancel_at_cycle_end, ended_at, fail)
    \/ \E userId \in Users, subscriptionId \in SubIds, dated \in BOOLEAN, fail \in Fails :
            pauseSubscription(userId, subscriptionId, dated, fail)
    \/ \E userId \in Users, subscriptionId \in SubIds, dated \in BOOLEAN, fail \in Fails :
            resumeSubscription(userId, subscriptionId, dated, fail)
    \/ \E d \in GatewayDeliveries \cup ProbeDeliveries :
            subscriptionWebhook(d.secret, d.route, d.signature, d.bytes, d.storeOk)

\* One request at a time, each from its first check to its response.
Next == now <= MaxClock /\ Requests /\ UNCHANGED beside

Spec == Init /\ [][Next]_vars


\* ----------------------------------------------------- retention cleanup
\* The days that may pass in a run of the sweep.
MaxDays == 1

\* A day, in seconds and in milliseconds (setDate(getDate() - daysOld) moves
\* the cutoff by whole days).
DaySeconds == 86400

DayMs == DaySeconds * 1000

\* The sweep deleting whatever is old, of any status: what C20_OnlySweepDeletes
\* must tell apart.
cleanupAnyStatus(daysOld) ==
    LET cutoffDate == NewDate(now) - daysOld * DayMs
        swept == {id \in DOMAIN store : store[id].updatedAt < cutoffDate}
    IN
    /\ now' = now + 1
    /\ store' = [id \in DOMAIN store \ swept |-> store[id]]
    /\ last' = [Obs("cleanup", Unset, 0, 0, Unset, <<>>)
                   EXCEPT !.days = daysOld, !.deleted = Cardinality(swept)]
    /\ UNCHANGED <<gateway, planActive>>

\* Subscription.cleanupOldSubscriptions(daysOld): deleteMany of the documents
\* with a terminal status and updatedAt before the cutoff.
cleanupOldSubscriptions(daysOld) ==
    LET cutoffDate == NewDate(now) - daysOld * DayMs
        swept == {id \in DOMAIN store :
                    /\ store[id].status \in {"completed", "cancelled", "expired"}
                    /\ store[id].updatedAt < cutoffDate}
    IN
    /\ Tick
    /\ store' = [id \in DOMAIN store \ swept |-> store[id]]
    /\ last' = [Obs("cleanup", Unset, 0, 0, Unset, <<>>)
                   EXCEPT !.days = daysOld, !.deleted = Cardinality(swept)]
    /\ UNCHANGED <<gateway, planActive>>

\* A day passes with no request.
PassDay ==
    /\ now \div DaySeconds < MaxDays
    /\ now' = now + DaySeconds
    /\ UNCHANGED <<store, gateway, planActive, last, beside>>

\* The server with the sweep run beside it: at most MaxClock requests and
\* sweeps, over MaxDays days.
CleanupNext ==
    \/ now % DaySeconds <= MaxClock /\ Requests /\ UNCHANGED beside
    \/ now % DaySeconds <= MaxClock
          /\ \E daysOld \in 0..MaxDays : cleanupOldSubscriptions(daysOld)
          /\ UNCHANGED beside
    \/ PassDay

CleanupSpec == Init /\ [][CleanupNext]_vars

\* =================================================== requests side by side
\* The same handlers cut at their awaits, so that the requests of several
\* callers interleave: a request takes a slot when it arrives, each await of
\* its handler (a gateway call, a store call) is one step, and the response
\* frees the slot.  A request that is refused by its first check is answered
\* in the step it arrives in.  The clock ticks at every step.
Flight(op, pc, user, sid, input, t, found) ==
    [op |-> op, pc |-> pc, user |-> user, sid |-> sid,
     input |-> input, t |-> t, found |-> found, write |-> <<>>, gw |-> <<>>]

\* A request may arrive in slot k.
Arrival(k) == inflight[k].op = "idle" /\ now <= MaxArrival

Holds(k, flight) == inflight' = [inflight EXCEPT ![k] = flight]

Leaves(k) == inflight' = [inflight EXCEPT ![k] = NoFlight]

FoundAt(st, subscriptionId) ==
    IF subscriptionId \in DOMAIN st THEN <<st[subscriptionId]>> ELSE <<>>

\* ------------------------------------------------ the webhook, in steps
\* Where subscriptionWebhook returns before its switch (Unset when it gets to
\* a handler).
webhookOutcome(webhookSecret, route, receivedSignature, bytes) ==
    LET rawBody == IF route = "app" THEN <<toString(bytes)>> ELSE <<>>
    IN IF webhookSecret = Unset THEN "no_secret"
       ELSE IF receivedSignature = <<>> THEN "no_signature"
       ELSE IF rawBody = <<>> THEN "no_raw_body"
       ELSE IF receivedSignature # HmacSha256Hex(webhookSecret, Utf8Bytes(rawBody[1]))
       THEN "bad_signature"
       ELSE IF JSONparse(toString(bytes)).event \in HandledEvents THEN Unset
       ELSE "unhandled"

\* What the sender of delivery d sees, and what the delivery was.
webhookObs(d, outcome) ==
    LET body == JSONparse(toString(d.bytes))
        entity == body.payload.subscription
    IN [Obs("webhook", Unset, TargetOf(body), webhookStatus(outcome), outcome, <<>>)
           EXCEPT !.body = body,
                  !.verified = outcome \in {Unset, "unhandled"},
                  !.exact = /\ d.secret # Unset
                            /\ d.signature = HmacSha256Hex(d.secret, d.bytes),
                  !.storeOk = d.storeOk,
                  !.flag = (d.route = "app"),
                  !.status = IF entity = <<>> THEN Unset ELSE entity[1].status,
                  !.paid = IF entity = <<>> THEN 0 ELSE OrZero(entity[1].paid_count)]

\* The delivery arrives: the middleware and the checks run, and the handler
\* of a verified, handled event builds its update and awaits the store.
webhookArrives(k, d) ==
    LET outcome == webhookOutcome(d.secret, d.route, d.signature, d.bytes)
        subscriptionId == TargetOf(JSONparse(toString(d.bytes)))
    IN
    /\ Arrival(k)
    /\ Tick
    /\ UNCHANGED <<store, gateway, planActive>>
    /\ IF outcome = Unset
       THEN /\ Holds(k, Flight("webhook", "update", Unset, subscriptionId, d, now,
                               FoundAt(store, subscriptionId)))
            /\ UNCHANGED last
       ELSE /\ last' = webhookObs(d, outcome)
            /\ UNCHANGED beside

\* A handler that reads the record when the event arrives and saves the
\* whole document: what C21_LastWriteWins must tell apart.
handlerSaves(st, flight) ==
    LET body == JSONparse(toString(flight.input.bytes))
    IN IF flight.sid \in DOMAIN st /\ flight.found # <<>>
       THEN [st EXCEPT ![flight.sid] =
                dispatch([st EXCEPT ![flight.sid] = flight.found[1]],
                         body.event, body.payload, flight.t)[flight.sid]]
       ELSE st

\* The handler's findOneAndUpdate as the store runs it: one document update,
\* with the values the handler built when the event arrived.
handlerWrites(st, flight) ==
    LET body == JSONparse(toString(flight.input.bytes))
    IN dispatch(st, body.event, body.payload, flight.t)

\* await handleSubscription...(payload): the store call returns or throws
\* (the handler's catch logs).
webhookUpdates(k) ==
    /\ inflight[k].op = "webhook" /\ inflight[k].pc = "update"
    /\ Tick
    /\ store' = IF inflight[k].input.storeOk THEN handlerWrites(store, inflight[k])
                ELSE store
    /\ Holds(k, [inflight[k] EXCEPT !.pc = "ack"])
    /\ UNCHANGED <<gateway, planActive, last>>

\* An acknowledgement that does not wait for the handler: what
\* C25_AcknowledgedAfterUpdate must tell apart.
webhookAcknowledgesEarly(k) ==
    /\ inflight[k].op = "webhook"
    /\ Tick
    /\ last' = webhookObs(inflight[k].input, Unset)
    /\ Leaves(k)
    /\ UNCHANGED <<store, gateway, planActive>>

\* return res.status(200).json({ received: true })
webhookAcknowledges(k) ==
    /\ inflight[k].op = "webhook" /\ inflight[k].pc = "ack"
    /\ Tick
    /\ last' = webhookObs(inflight[k].input, Unset)
    /\ Leaves(k)
    /\ UNCHANGED <<store, gateway, planActive>>

\* ------------------------------------------- cancel / pause / resume, in steps
\* Subscription.findOne({ subscriptionId, userId }) and the check of the
\* status it holds; then the handler awaits the gateway.
actionArrives(k, op, userId, subscriptionId, flag) ==
    LET allowed ==
            CASE op = "cancel" -> canCancel(store[subscriptionId])
              [] op = "pause" -> canPause(store[subscriptionId])
              [] op = "resume" -> canResume(store[subscriptionId])
    IN
    /\ Arrival(k)
    /\ Tick
    /\ UNCHANGED <<store, gateway, planActive>>
    /\ IF ~findOwned(store, subscriptionId, userId)
       THEN /\ last' = [Obs(op, userId, subscriptionId, 404, "not_found", <<>>)
                           EXCEPT !.flag = flag]
            /\ UNCHANGED beside
       ELSE IF ~allowed
       THEN /\ last' = [Obs(op, userId, subscriptionId, 400, "invalid_transition", <<>>)
                           EXCEPT !.flag = flag]
            /\ UNCHANGED beside
       ELSE /\ Holds(k, Flight(op, "gateway", userId, subscriptionId,
                               [flag |-> flag], now, <<store[subscriptionId]>>))
            /\ UNCHANGED last

\* The gateway call of an action, by name.
actionCall(op) ==
    CASE op = "cancel" -> "subscriptions.cancel"
      [] op = "pause" -> "subscriptions.pause"
      [] op = "resume" -> "subscriptions.resume"

\* await razorpay.subscriptions.cancel / pause / resume: the call throws (500)
\* or answers, and the handler builds its update and awaits the store.
actionAtGateway(k, dated, ended_at, fail) ==
    LET flight == inflight[k]
        update ==
            CASE flight.op = "cancel" ->
                    cancelUpdate(flight.input.flag,
                                 Entity(flight.sid, "cancelled", 0, <<>>, <<>>, FALSE, ended_at),
                                 now)
              [] flight.op = "pause" ->
                    pauseUpdate(Entity(flight.sid, "paused", 0, <<>>, <<>>, dated, 0), now)
              [] flight.op = "resume" ->
                    resumeUpdate(Entity(flight.sid, "active", 0, <<>>, <<>>, dated, 0), now)
    IN
    /\ flight.op \in {"cancel", "pause", "resume"} /\ flight.pc = "gateway"
    /\ Tick
    /\ UNCHANGED <<store, gateway, planActive>>
    /\ IF fail = "gateway"
       THEN /\ last' = [Obs(flight.op, flight.user, flight.sid, 500, "gateway",
                            <<actionCall(flight.op)>>)
                           EXCEPT !.flag = flight.input.flag, !.gwOk = FALSE]
            /\ Leaves(k)
       ELSE /\ Holds(k, [flight EXCEPT !.pc = "update", !.t = now,
                                       !.write = <<update>>,
                                       !.gw = <<actionCall(flight.op)>>])
            /\ UNCHANGED last

\* await Subscription.findOneAndUpdate({ subscriptionId }, update), then the
\* response.
actionUpdates(k, fail) ==
    LET flight == inflight[k]
    IN
    /\ flight.op \in {"cancel", "pause", "resume"} /\ flight.pc = "update"
    /\ Tick
    /\ UNCHANGED <<gateway, planActive>>
    /\ Leaves(k)
    /\ IF fail = "store"
       THEN /\ store' = store
            /\ last' = [Obs(flight.op, flight.user, flight.sid, 500, "store", flight.gw)
                           EXCEPT !.flag = flight.input.flag, !.storeOk = FALSE]
       ELSE /\ store' = findOneAndUpdate(store, flight.sid, flight.write[1], flight.t)
            /\ last' = [Obs(flight.op, flight.user, flight.sid, 200, Unset, flight.gw)
                           EXCEPT !.flag = flight.input.flag]

\* ------------------------------------------------------- create, in steps
\* What the caller of create request r sees.
createObs(r, subscriptionId, code, error, gw) ==
    [Obs("create", r.userId, subscriptionId, code, error, gw)
        EXCEPT !.plan = r.plan_id, !.status = r.status,
               !.flag = (r.fail # "customers.fetch"),
               !.gwOk = (error # "gateway"), !.storeOk = (error # "store")]

\* The creates that have passed their checks and not yet reached the gateway.
createsWaiting ==
    {j \in Slots : inflight[j].op = "create" /\ inflight[j].pc = "gateway"}

\* The checks of createSubscription up to the look for an existing
\* subscription; then the handler goes on to the gateway.
createArrives(k, r) ==
    /\ Arrival(k)
    /\ Len(gateway) + Cardinality(createsWaiting) < MaxSubs
    /\ Tick
    /\ UNCHANGED <<store, gateway, planActive>>
    /\ IF \/ r.plan_id = Unset
          \/ EmailOf(r.userId) = Unset
          \/ ~(r.plan_id \in DOMAIN planActive /\ planActive[r.plan_id])
          \/ existingSubscription(store, r.userId, r.plan_id)
       THEN /\ last' = createObs(r, 0, 400,
                          IF r.plan_id = Unset THEN "plan_id_required"
                          ELSE IF EmailOf(r.userId) = Unset THEN "email_required"
                          ELSE IF ~(r.plan_id \in DOMAIN planActive /\ planActive[r.plan_id])
                          THEN "plan_not_available"
                          ELSE "already_subscribed",
                          <<>>)
            /\ UNCHANGED beside
       ELSE /\ Holds(k, Flight("create", "gateway", r.userId, 0, r, now, <<>>))
            /\ UNCHANGED last

\* The customer is looked up and fetched or created, and the gateway creates
\* the subscription; then the handler awaits Subscription.create.
createAtGateway(k) ==
    LET r == inflight[k].input
        id == Len(gateway) + 1
        total == IF r.total_count = 0 THEN DefaultTotalCount ELSE r.total_count
        subscription == Entity(id, r.status, total, <<0>>, <<total>>, r.dated, 0)
        fetched == existingCustomer(store, r.userId) /\ r.fail # "customers.fetch"
        customerCalls ==
            (IF existingCustomer(store, r.userId) THEN <<"customers.fetch">> ELSE <<>>)
            \o (IF fetched THEN <<>> ELSE <<"customers.create">>)
        customer == IF fetched THEN existingCustomerId(store, r.userId)
                    ELSE CustomerOf(r.userId)
    IN
    /\ inflight[k].op = "create" /\ inflight[k].pc = "gateway"
    /\ Tick
    /\ UNCHANGED <<store, planActive>>
    /\ IF ~fetched /\ r.fail = "customers.create"
       THEN /\ last' = createObs(r, 0, 500, "gateway", customerCalls)
            /\ Leaves(k)
            /\ UNCHANGED gateway
       ELSE IF r.fail = "subscriptions.create"
       THEN /\ last' = createObs(r, 0, 500, "gateway",
                                 customerCalls \o <<"subscriptions.create">>)
            /\ Leaves(k)
            /\ UNCHANGED gateway
       ELSE /\ gateway' = Append(gateway,
                              [plan_id |-> r.plan_id, total_count |-> total,
                               customer_id |-> customer])
            /\ Holds(k, [inflight[k] EXCEPT
                            !.pc = "insert", !.sid = id, !.t = now,
                            !.write = <<NewDoc(r.userId, r.plan_id, customer,
                                               subscription, now)>>,
                            !.gw = customerCalls \o <<"subscriptions.create">>])
            /\ UNCHANGED last

\* await Subscription.create(...), then the 201 (or the catch's 500).
createInserts(k) ==
    LET flight == inflight[k]
    IN
    /\ flight.op = "create" /\ flight.pc = "insert"
    /\ Tick
    /\ UNCHANGED <<gateway, planActive>>
    /\ Leaves(k)
    /\ IF flight.input.fail = "store" \/ ~Validates(flight.write[1])
       THEN /\ store' = store
            /\ last' = createObs(flight.input, flight.sid, 500, "store", flight.gw)
       ELSE /\ store' = Insert(store, flight.sid, flight.write[1])
            /\ last' = createObs(flight.input, flight.sid, 201, Unset, flight.gw)

\* ------------------------------------------- the environment of the race
\* The events delivered while requests race: about subscription 1 once the
\* gateway has created it, signed by the gateway; one whose store update
\* fails; one signed with another key.
RaceEvents ==
    {"subscription.activated", "subscription.charged", "subscription.cancelled",
     "subscription.updated"}

RaceDocs == UNION {PlainDocs(id) : id \in {i \in {1} : i <= Len(gateway)}}

RaceDeliveries ==
    {Signed(doc, TRUE) : doc \in {p \in RaceDocs : p.event \in RaceEvents}}
    \cup
    {Signed(doc, FALSE) : doc \in {p \in RaceDocs : p.event = "subscription.activated"}}
    \cup
    {Delivery(WebhookKey, "app",
              HmacSha256Hex("attacker_key", Bytes(doc, "compact", "61")),
              Bytes(doc, "compact", "61"), TRUE) :
        doc \in {p \in RaceDocs : p.event = "subscription.cancelled"}}

RaceCreates ==
    {CreateRequest("u1", "p1", MaxCount, status, FALSE, fail) :
        status \in {"created", "active"}, fail \in {"none", "store"}}
    \cup {CreateRequest("u2", "p1", MaxCount, "created", FALSE, "none")}

RaceNext ==
    /\ UNCHANGED <<users, issued, catalog, runs>>
    /\ \/ \E k \in Slots, d \in RaceDeliveries : webhookArrives(k, d)
       \/ \E k \in Slots : webhookUpdates(k)
       \/ \E k \in Slots : webhookAcknowledges(k)
       \/ \E k \in Slots, op \in {"cancel", "pause", "resume"} :
               actionArrives(k, op, "u1", 1, FALSE)
       \/ \E k \in Slots, fail \in {"none", "gateway"} : actionAtGateway(k, FALSE, 0, fail)
       \/ \E k \in Slots, fail \in {"none", "store"} : actionUpdates(k, fail)
       \/ \E k \in Slots, r \in RaceCreates : createArrives(k, r)
       \/ \E k \in Slots : createAtGateway(k)
       \/ \E k \in Slots : createInserts(k)

RaceSpec == Init /\ [][RaceNext]_vars

\* What the requests of RaceSpec read and write.
raceVars == <<store, gateway, planActive, now, last, inflight>>

\* Every await returns: the gateway answers or fails, the store call returns
\* or throws, and the event loop runs what waits on it.
RaceFairSpec ==
    /\ RaceSpec
    /\ \A k \in Slots :
          /\ WF_raceVars(webhookUpdates(k))
          /\ WF_raceVars(webhookAcknowledges(k))
          /\ WF_raceVars(\E fail \in {"none", "gateway"} : actionAtGateway(k, FALSE, 0, fail))
          /\ WF_raceVars(\E fail \in {"none", "store"} : actionUpdates(k, fail))
          /\ WF_raceVars(createAtGateway(k))
          /\ WF_raceVars(createInserts(k))

\* ======================================================== the properties
\* The statuses from which the specification lets a user action proceed.
AllowedFrom(op) ==
    CASE op = "pause" -> {"active"}
      [] op = "resume" -> {"paused"}
      [] op = "cancel" -> {"active", "authenticated", "pending"}

UserActions == {"pause", "resume", "cancel"}

\* The request just answered was a user action on a record its user owns.
ActsOnOwned(obs, st) ==
    /\ obs.op \in UserActions
    /\ obs.sid \in DOMAIN st
    /\ st[obs.sid].userId = obs.user

\* C1: pause, resume or cancel on a record whose status is not allowed for
\* that action is answered 400, issues no gateway call and leaves every
\* subscription record as it was.
C1_GuardRejects ==
    [][(ActsOnOwned(last', store)
          /\ store[last'.sid].status \notin AllowedFrom(last'.op))
       => /\ last'.code = 400
          /\ last'.gw = <<>>
          /\ store' = store]_vars

\* A pause was refused on an owned record that is paused already.
C1_Witness ==
    /\ last.op = "pause"
    /\ last.code = 400
    /\ last.sid \in DOMAIN store
    /\ store[last.sid].userId = last.user
    /\ store[last.sid].status = "paused"

\* C2: a user action that goes through (allowed status, gateway call and
\* store write succeed) leaves the status the action's table entry gives:
\* cancel -> pending_cancellation when cancel_at_cycle_end, else cancelled,
\* with cancelledAt the time of the request; pause -> paused; resume -> active.
C2_ActionStatus ==
    [][(ActsOnOwned(last', store)
          /\ store[last'.sid].status \in AllowedFrom(last'.op)
          /\ last'.gwOk /\ last'.storeOk)
       => /\ last'.code = 200
          /\ store'[last'.sid].status =
                CASE last'.op = "pause" -> "paused"
                  [] last'.op = "resume" -> "active"
                  [] last'.op = "cancel" ->
                        IF last'.flag THEN "pending_cancellation" ELSE "cancelled"
          /\ last'.op = "cancel" => store'[last'.sid].cancelledAt = NewDate(now)]_vars

\* A cancel at the end of the cycle went through.
C2_Witness ==
    /\ last.op = "cancel"
    /\ last.code = 200
    /\ last.flag
    /\ store[last.sid].status = "pending_cancellation"
    /\ store[last.sid].cancelledAt # NoDate

\* The statuses the model defines that are not terminal.
NonTerminal == StatusEnum \ {"cancelled", "completed", "expired"}

\* A record of the user and plan of the create just answered, with a status
\* in statuses, was there before it.
DuplicateIn(statuses) ==
    /\ last'.op = "create"
    /\ \E id \in DOMAIN store :
          /\ store[id].userId = last'.user
          /\ store[id].planId = last'.plan
          /\ store[id].status \in statuses

\* The create just answered was refused before anything was done.
CreateRefused ==
    /\ last'.code \in {400, 409}
    /\ last'.gw = <<>>
    /\ gateway' = gateway
    /\ store' = store

\* C3 as stated: create is refused, with no gateway call and no insert,
\* whenever a record of the same user and plan exists in any status other
\* than cancelled, completed and expired.
C3_AnyNonTerminalRefused ==
    [][DuplicateIn(NonTerminal) => CreateRefused]_vars

\* C3: create is refused, with no gateway call and no insert, whenever a
\* record of the same user and plan exists in status created, authenticated,
\* active or pending.
C3_DuplicateRefused ==
    [][DuplicateIn({"created", "authenticated", "active", "pending"})
       => CreateRefused]_vars

\* A create was refused as a duplicate of a record that is pending.
C3_Witness ==
    /\ last.op = "create"
    /\ last.error = "already_subscribed"
    /\ \E id \in DOMAIN store :
          /\ store[id].userId = last.user
          /\ store[id].planId = last.plan
          /\ store[id].status = "pending"

\* C4: after every persist, each record has
\* remainingCount = max(totalCount - paidCount, 0).
C4_RemainingDerived ==
    \A id \in DOMAIN store :
        store[id].remainingCount = Max(store[id].totalCount - store[id].paidCount, 0)

\* C5: every webhook delivery is answered 200, whatever happened inside.
C5_AlwaysAcknowledged ==
    last.op = "webhook" => last.code = 200

\* A delivery whose signature did not match was acknowledged.
C5_Witness ==
    /\ last.op = "webhook"
    /\ last.error = "bad_signature"
    /\ last.code = 200

\* C6: a webhook delivery changes a subscription record only if the secret
\* is configured, the raw body is there, the signature is the digest of the
\* bytes of the body, and the event is one of the ten handled.
C6_OnlyGenuineWrites ==
    [][(last'.op = "webhook" /\ store' # store)
       => /\ last'.flag
          /\ last'.exact
          /\ last'.body.event \in HandledEvents]_vars

\* C7: a delivery that comes with a secret configured, a signature and a raw
\* body is accepted exactly when the signature is the digest of the bytes
\* received.
C7_ExactBytes ==
    (last.op = "webhook"
       /\ last.error \notin {"no_secret", "no_signature", "no_raw_body"})
    => (last.verified <=> last.exact)

\* C8: a verified event delivered twice in a row leaves every record as the
\* first delivery left it (updatedAt, which the store stamps itself, aside).
C8_Idempotent ==
    [][(/\ last.op = "webhook" /\ last.verified /\ last.storeOk
        /\ last'.op = "webhook" /\ last'.verified /\ last'.storeOk
        /\ last'.body = last.body)
       => \A id \in DOMAIN store :
             \A f \in DOMAIN store[id] \ {"updatedAt"} :
                 store'[id][f] = store[id][f]]_vars

\* The status the event table gives for a delivered body.
StatusAfter(body) ==
    CASE body.event = "subscription.authenticated" -> "authenticated"
      [] body.event = "subscription.activated" -> "active"
      [] body.event = "subscription.charged" -> body.payload.subscription[1].status
      [] body.event = "subscription.completed" -> "completed"
      [] body.event = "subscription.cancelled" -> "cancelled"
      [] body.event = "subscription.paused" -> "paused"
      [] body.event = "subscription.resumed" -> "active"
      [] body.event = "subscription.pending" -> "pending"
      [] body.event = "subscription.halted" -> "halted"

\* C9: after a verified subscription.* webhook for an existing record, whose
\* update the store let through, the record's status is the one the event
\* table gives, whatever it was before.
C9_EventStatus ==
    (/\ last.op = "webhook" /\ last.verified /\ last.storeOk
     /\ last.body.event \in HandledEvents \ {"payment.failed"}
     /\ last.sid \in DOMAIN store)
    => store[last.sid].status = StatusAfter(last.body)

\* A resumed event made a record active that was never paused.
C9_Witness ==
    /\ last.op = "webhook" /\ last.verified /\ last.storeOk
    /\ last.body.event = "subscription.resumed"
    /\ last.sid \in DOMAIN store
    /\ store[last.sid].pausedAt = NoDate
    /\ store[last.sid].resumedAt # NoDate
    /\ store[last.sid].status = "active"

\* The scenario: create, verify with the gateway's signature and an active
\* subscription, a charged event with paid_count 2, cancel (at once or at the
\* end of the cycle; the gateway or the store may let it fail).  Each step is
\* taken when the one before has been answered.
ScenarioNext ==
    \/ /\ UNCHANGED beside
       /\ last.op = "start"
       /\ \E r \in CreateRequests :
            /\ r.userId = "u1" /\ r.plan_id \in Plans
            /\ r.status = "created" /\ r.fail = "none"
            /\ createSubscription(r.userId, r.plan_id, r.total_count, r.status, r.dated, r.fail)
    \/ /\ UNCHANGED beside
       /\ last.op = "create" /\ last.code = 201
       /\ \E r \in VerifyRequests :
            /\ r.sid = last.sid
            /\ r.signature = GatewaySignature(r.pid, r.sid)
            /\ r.subscription.status = "active" /\ r.fail = "none"
            /\ verifySubscriptionPayment(r.pid, r.sid, r.signature, r.subscription, r.created_at, r.fail)
    \/ /\ UNCHANGED beside
       /\ last.op = "verify" /\ last.code = 200
       /\ \E d \in GatewayDeliveries :
            /\ d.storeOk
            /\ d.bytes.doc.event = "subscription.charged"
            /\ d.bytes.doc.payload.subscription # <<>>
            /\ d.bytes.doc.payload.subscription[1].id = last.sid
            /\ d.bytes.doc.payload.subscription[1].status = "active"
            /\ d.bytes.doc.payload.subscription[1].paid_count = <<2>>
            /\ subscriptionWebhook(d.secret, d.route, d.signature, d.bytes, d.storeOk)
    \/ /\ UNCHANGED beside
       /\ last.op = "webhook"
       /\ \E cancel_at_cycle_end \in BOOLEAN, ended_at \in {0, 5}, fail \in Fails :
            cancelSubscription("u1", last.sid, cancel_at_cycle_end, ended_at, fail)

ScenarioSpec == Init /\ [][ScenarioNext]_vars

\* C10: in the scenario, create stores status created; verify stores status
\* active and the paid_count the gateway reports; the charged event stores
\* paidCount 2 and remainingCount = totalCount - 2; cancel with
\* cancel_at_cycle_end false, when the gateway and the store let it through,
\* is answered 200, stores status cancelled and sets cancelledAt.
C10_Scenario ==
    /\ last.op = "create" =>
          last.code = 201 /\ store[last.sid].status = "created"
    /\ last.op = "verify" =>
          /\ last.code = 200
          /\ store[last.sid].status = "active"
          /\ store[last.sid].paidCount = last.paid
    /\ last.op = "webhook" =>
          /\ last.verified
          /\ store[last.sid].paidCount = 2
          /\ store[last.sid].remainingCount = store[last.sid].totalCount - 2
    /\ (last.op = "cancel" /\ ~last.flag /\ last.gwOk /\ last.storeOk) =>
          /\ last.code = 200
          /\ store[last.sid].status = "cancelled"
          /\ store[last.sid].cancelledAt # NoDate

\* C11: a verification whose signature is sent but is not the digest of
\* paymentId|subscriptionId is answered 400 with no gateway call, and (the
\* store letting the write through) the named record, whatever its status
\* was, becomes failed with failureReason "Invalid signature".
C11_MismatchMarksFailed ==
    [][(last'.op = "verify" /\ last'.flag /\ ~last'.verified /\ last'.storeOk)
       => /\ last'.code = 400
          /\ last'.gw = <<>>
          /\ last'.sid \in DOMAIN store =>
                /\ store'[last'.sid].status = "failed"
                /\ store'[last'.sid].failureReason = "Invalid signature"]_vars

\* A record that had been cancelled was marked failed by a verification with
\* a signature that does not match.
C11_Witness ==
    /\ last.op = "verify" /\ last.flag /\ ~last.verified
    /\ last.code = 400
    /\ last.sid \in DOMAIN store
    /\ store[last.sid].cancelledAt # NoDate
    /\ store[last.sid].status = "failed"

\* C12: a verification with the matching signature, both fetches answered,
\* the record there and the write let through, is answered 200 and leaves in
\* the record the gateway's status, paid_count, remaining_count (total_count
\* when the entity has none), the payment id, the payment's created_at (the
\* time of the request when it has none) and the cycle and charge times;
\* activatedAt is the time of the request when the status is active and is
\* what it was otherwise.
C12_VerifiedUpdate ==
    [][(/\ last'.op = "verify" /\ last'.verified
        /\ last'.gwOk /\ last'.storeOk
        /\ last'.sid \in DOMAIN store)
       => LET g == last'.body.payload.subscription[1]
              pay == last'.body.payload.payment[1]
              old == store[last'.sid]
              new == store'[last'.sid]
          IN  /\ last'.code = 200
              /\ new.status = g.status
              /\ new.paidCount = g.paid_count[1]
              /\ new.remainingCount =
                    IF g.remaining_count # <<>> THEN g.remaining_count[1]
                    ELSE g.total_count
              /\ new.lastPaymentId = pay.id
              /\ new.lastChargedAt =
                    IF pay.created_at # 0 THEN pay.created_at * 1000 ELSE now * 1000
              /\ new.currentStart = g.current_start * 1000
              /\ new.currentEnd = g.current_end * 1000
              /\ new.chargeAt = g.charge_at * 1000
              /\ new.activatedAt =
                    IF g.status = "active" THEN now * 1000 ELSE old.activatedAt]_vars

\* A verification that found the subscription not active left the
\* activatedAt an earlier activation had set.
C12_Witness ==
    /\ last.op = "verify" /\ last.verified /\ last.code = 200
    /\ last.status # "active"
    /\ store[last.sid].status = last.status
    /\ store[last.sid].activatedAt # NoDate
    /\ store[last.sid].activatedAt # store[last.sid].updatedAt

\* C13: a record whose status is cancelled, completed or expired keeps that
\* status through every later request.
C13_TerminalFrozen ==
    [][\A id \in DOMAIN store \cap DOMAIN store' :
          isTerminal(store[id]) => store'[id].status = store[id].status]_vars

\* C14: every record's status is one of the eleven values of the enum.
C14_StatusInEnum ==
    \A id \in DOMAIN store : store[id].status \in StatusEnum

\* C15: a cancel, pause or resume on a record of another user is answered
\* 404 with no gateway call and no write; and the steps come in order: a
\* status that is not allowed is refused before any gateway call, and the
\* store is written only after a gateway call that succeeded.
C15_OwnerOnly ==
    [][last'.op \in UserActions
       => LET found == /\ last'.sid \in DOMAIN store
                       /\ store[last'.sid].userId = last'.user
          IN  /\ ~found =>
                    last'.code = 404 /\ last'.gw = <<>> /\ store' = store
              /\ (found /\ store[last'.sid].status \notin AllowedFrom(last'.op)) =>
                    last'.code = 400 /\ last'.gw = <<>> /\ store' = store
              /\ store' # store =>
                    found /\ Len(last'.gw) = 1 /\ last'.gwOk]_vars

\* A cancel by another user of an active record was answered 404.
C15_Witness ==
    /\ last.op = "cancel"
    /\ last.code = 404
    /\ last.sid \in DOMAIN store
    /\ store[last.sid].userId # last.user
    /\ store[last.sid].status = "active"

\* C16: when the gateway call of a cancel, pause or resume that passed its
\* checks fails, the answer is 500, the call was made once and every record
\* is as it was; and an action refused with 400 made no gateway call and no
\* write.
C16_GatewayFailure ==
    [][last'.op \in UserActions
       => /\ (/\ last'.sid \in DOMAIN store
              /\ store[last'.sid].userId = last'.user
              /\ store[last'.sid].status \in AllowedFrom(last'.op)
              /\ ~last'.gwOk)
             => /\ last'.code = 500
                /\ last'.error = "gateway"
                /\ Len(last'.gw) = 1
                /\ store' = store
          /\ last'.code = 400 => last'.gw = <<>> /\ store' = store]_vars

\* The gateway refused to pause an active record, which stayed active.
C16_Witness ==
    /\ last.op = "pause"
    /\ last.code = 500 /\ ~last.gwOk
    /\ last.gw = <<"subscriptions.pause">>
    /\ last.sid \in DOMAIN store
    /\ store[last.sid].status = "active"
    /\ store[last.sid].pausedAt = NoDate

\* C17: a verified payment.failed event for an existing record changes, of
\* that record, lastFailedPaymentId, lastFailedAt and failureReason (and the
\* updatedAt the store stamps) and nothing else, the status in particular;
\* one whose payment names no subscription changes nothing.
C17_PaymentFailedFrame ==
    [][(/\ last'.op = "webhook" /\ last'.verified /\ last'.storeOk
        /\ last'.body.event = "payment.failed"
        /\ last'.body.payload.payment # <<>>)
       => LET payment == last'.body.payload.payment[1]
              sid == payment.subscription_id
          IN  IF sid \in DOMAIN store
              THEN /\ \A id \in DOMAIN store \ {sid} : store'[id] = store[id]
                   /\ DOMAIN store' = DOMAIN store
                   /\ store'[sid].status = store[sid].status
                   /\ \A f \in DOMAIN store[sid] \
                            {"lastFailedPaymentId", "lastFailedAt",
                             "failureReason", "updatedAt"} :
                         store'[sid][f] = store[sid][f]
                   /\ store'[sid].lastFailedPaymentId = payment.id
                   /\ store'[sid].lastFailedAt = now * 1000
                   /\ store'[sid].failureReason =
                         IF payment.error_description # Unset
                         THEN payment.error_description ELSE "Payment failed"
              ELSE store' = store]_vars

\* A payment.failed event was recorded on a paused record, which stayed
\* paused.
C17_Witness ==
    /\ last.op = "webhook" /\ last.verified /\ last.storeOk
    /\ last.body.event = "payment.failed"
    /\ last.sid \in DOMAIN store
    /\ store[last.sid].lastFailedPaymentId # Unset
    /\ store[last.sid].lastFailedAt = store[last.sid].updatedAt
    /\ store[last.sid].status = "paused"

\* C18: a verified subscription.cancelled event for an existing record sets
\* status cancelled and cancelledAt; endAt becomes the payload's ended_at when
\* there is one and is what it was when there is none.
C18_CancelledKeepsEndAt ==
    [][(/\ last'.op = "webhook" /\ last'.verified /\ last'.storeOk
        /\ last'.body.event = "subscription.cancelled"
        /\ last'.sid \in DOMAIN store)
       => LET subscription == last'.body.payload.subscription[1]
              sid == last'.sid
          IN  /\ store'[sid].status = "cancelled"
              /\ store'[sid].cancelledAt = now * 1000
              /\ store'[sid].endAt =
                    IF subscription.ended_at # 0
                    THEN subscription.ended_at * 1000
                    ELSE store[sid].endAt]_vars

\* C19: a verified event that names a subscription with no local record
\* leaves the store as it was; and the only step after which there is a
\* record that was not there before is a create answered 201.
C19_NoRecordFromEvents ==
    [][/\ (last'.op = "webhook" /\ last'.verified /\ last'.sid \notin DOMAIN store)
          => store' = store
       /\ DOMAIN store' \ DOMAIN store # {}
          => last'.op = "create" /\ last'.code = 201]_vars

\* A verified activated event named a subscription of which there is no
\* record, beside one there is a record of; no record was made.
C19_Witness ==
    /\ last.op = "webhook" /\ last.verified /\ last.storeOk
    /\ last.body.event = "subscription.activated"
    /\ last.sid \in SubIds
    /\ last.sid \notin DOMAIN store
    /\ DOMAIN store # {}

\* C20: no request deletes a record; the sweep deletes the records whose
\* status is cancelled, completed or expired and whose updatedAt is before the
\* cutoff (now less daysOld days), those and no other, and changes no record
\* it leaves.
C20_OnlySweepDeletes ==
    [][LET sweep == now' = now + 1 /\ last'.op = "cleanup"
           cutoff == now * 1000 - last'.days * 86400000
           old == {id \in DOMAIN store :
                     /\ store[id].status \in {"cancelled", "completed", "expired"}
                     /\ store[id].updatedAt < cutoff}
       IN  /\ ~sweep => DOMAIN store \subseteq DOMAIN store'
           /\ sweep => /\ DOMAIN store' = DOMAIN store \ old
                       /\ \A id \in DOMAIN store' : store'[id] = store[id]
                       /\ last'.deleted = Cardinality(old)]_vars

\* A sweep of what is older than a day deleted one record and left a record
\* that is terminal but younger.
C20_Witness ==
    /\ last.op = "cleanup"
    /\ last.days = 1
    /\ last.deleted = 1
    /\ \E id \in DOMAIN store :
          /\ isTerminal(store[id])
          /\ store[id].updatedAt >= (now - 1) * 1000 - DayMs

\* C23: a user action (cancel, pause, resume), a payment verification or a
\* webhook event that names subscription S leaves the record of every other
\* subscription exactly as it was.
C23_OtherRecordsUntouched ==
    [][last'.op \in UserActions \cup {"verify", "webhook"}
        => \A s \in DOMAIN store :
              s # last'.sid => s \in DOMAIN store' /\ store'[s] = store[s]]_vars

\* Two records are stored, and the last request (a user action, a verification
\* or a webhook event) has just written the one it names while the other
\* still carries an earlier write.
C23_Witness ==
    /\ last.op \in UserActions \cup {"verify", "webhook"}
    /\ last.sid \in DOMAIN store
    /\ store[last.sid].updatedAt = NewDate(now - 1)
    /\ \E s \in DOMAIN store :
          s # last.sid /\ store[s].updatedAt < store[last.sid].updatedAt

\* C24: when create gets as far as the customer, and the user already has a
\* record with a customerId that the gateway still answers for, create issues
\* no customers.create call and the record it inserts carries that customerId;
\* otherwise it issues exactly one customers.create call, and issues it before
\* subscriptions.create.
C24_CustomerReused ==
    [][LET known == {store[s].customerId : s \in
                        {r \in DOMAIN store : /\ store[r].userId = last'.user
                                              /\ store[r].customerId # Unset}}
           creates == {i \in DOMAIN last'.gw : last'.gw[i] = "customers.create"}
       IN
       /\ last'.op = "create"
       /\ last'.error \notin {"plan_id_required", "email_required",
                              "plan_not_available", "already_subscribed"}
       => IF known # {} /\ last'.flag
          THEN /\ creates = {}
               /\ last'.code = 201 => store'[last'.sid].customerId \in known
          ELSE /\ Cardinality(creates) = 1
               /\ \A i \in DOMAIN last'.gw :
                     last'.gw[i] = "subscriptions.create" => \A j \in creates : j < i]_vars

\* A second create of a user whose first record carries a customerId has been
\* answered 201 after one customers.fetch and no customers.create, and both
\* records carry the same customerId.
C24_Witness ==
    /\ last.op = "create" /\ last.code = 201 /\ last.flag
    /\ last.gw = <<"customers.fetch", "subscriptions.create">>
    /\ \E s \in DOMAIN store :
          /\ s # last.sid
          /\ store[s].userId = last.user
          /\ store[s].customerId # Unset
          /\ store[s].customerId = store[last.sid].customerId

\* C22: what a reconciliation handler writes depends on the event's payload and
\* the clock only.  When a verified, handled event is applied to the record S
\* it names, applying the same event at the same time to the contents of any
\* other stored record gives, field by field, the same value, unless the
\* handler leaves that field alone in both.
C22_PayloadOnly ==
    [][/\ last'.op = "webhook" /\ last'.verified /\ last'.storeOk
       /\ last'.body.event \in HandledEvents
       /\ last'.sid \in DOMAIN store
       => \A r \in DOMAIN store :
            LET S == last'.sid
                other == dispatch([store EXCEPT ![S] = store[r]],
                                  last'.body.event, last'.body.payload, now)[S]
            IN \A f \in DOMAIN store[S] :
                 \/ store'[S][f] = other[f]
                 \/ store'[S][f] = store[S][f] /\ other[f] = store[r][f]]_vars

\* A verified subscription.activated has just been written to the record it
\* names, while another record with another status and another total is
\* stored.
C22_Witness ==
    /\ last.op = "webhook" /\ last.verified /\ last.storeOk
    /\ last.body.event = "subscription.activated"
    /\ last.sid \in DOMAIN store
    /\ store[last.sid].updatedAt = NewDate(now - 1)
    /\ store[last.sid].activatedAt = NewDate(now - 1)
    /\ \E r \in DOMAIN store :
          /\ r # last.sid
          /\ store[r].status # store[last.sid].status
          /\ store[r].totalCount # store[last.sid].totalCount

\* Who may change record s in the step just taken: its owner through an
\* authenticated action, or a webhook or verification whose signature the
\* handler found to match.
Authorised(s) ==
    \/ last'.op \in UserActions /\ last'.user = store[s].userId
    \/ last'.op \in {"webhook", "verify"} /\ last'.verified

\* C26 as stated: a stored record changes only through an authenticated action
\* of its owner or through a request whose signature verified; a request with
\* no valid signature changes no record.
C26_OnlyAuthorisedChanges ==
    [][\A s \in DOMAIN store :
          s \in DOMAIN store' /\ store'[s] # store[s] => Authorised(s)]_vars

\* C26: a stored record changes only through an authenticated action of its
\* owner, through a request whose signature verified, or through a payment
\* verification whose signature does not match, which changes the record it
\* names in nothing but status (failed), failureReason and updatedAt.
C26_AuthorisedOrMarkedFailed ==
    [][\A s \in DOMAIN store :
          s \in DOMAIN store' /\ store'[s] # store[s]
          => \/ Authorised(s)
             \/ /\ last'.op = "verify" /\ ~last'.verified /\ last'.flag
                /\ last'.sid = s
                /\ store'[s] = [store[s] EXCEPT !.status = "failed",
                                                !.failureReason = "Invalid signature",
                                                !.updatedAt = NewDate(now)]]_vars

\* A verification with a signature that does not match, sent by nobody in
\* particular, has just turned a user's record to failed.
C26_Witness ==
    /\ last.op = "verify" /\ ~last.verified /\ last.flag
    /\ last.user = Unset
    /\ last.sid \in DOMAIN store
    /\ store[last.sid].userId \in Users
    /\ store[last.sid].status = "failed"
    /\ store[last.sid].failureReason = "Invalid signature"
    /\ store[last.sid].updatedAt = NewDate(now - 1)

\* C30: when a create request has completed, the subscription it created at
\* the gateway has a local record with the same subscriptionId, also when the
\* insert failed.
C30_NoOrphanAtGateway ==
    last.op = "create" /\ last.sid \in 1..Len(gateway) => last.sid \in DOMAIN store

\* The record of S after the event of delivery x is applied to record r0, with
\* the clock its handler read.
Once(r0, x) ==
    LET body == JSONparse(toString(x.input.bytes))
    IN dispatch([s \in {x.sid} |-> r0], body.event, body.payload, x.t)[x.sid]

\* The same after the events of x and then y, one after the other.
Serially(r0, x, y) == Once(Once(r0, x), y)

\* C21: two verified deliveries for the same subscription are in flight at the
\* same time, both arrived on the same record, and the store lets both
\* updates through.  The first update written onto that record gives the
\* record with that event applied; and when the second is written onto it,
\* the record equals the one that applying the two events one after the
\* other, in one of the two orders, gives, so that no field holds a value
\* that neither order produces.
C21_LastWriteWins ==
    [][\A a, b \in Slots :
          LET A == inflight[a]
              B == inflight[b]
              together ==
                  /\ a # b
                  /\ A.op = "webhook" /\ B.op = "webhook"
                  /\ A.sid = B.sid
                  /\ A.found # <<>> /\ A.found = B.found
                  /\ A.input.storeOk /\ B.input.storeOk
                  /\ B.pc = "update"
          IN
          /\ /\ together
             /\ A.pc = "update" /\ inflight'[a].pc = "ack"
             /\ store[A.sid] = A.found[1]
             => /\ A.sid \in DOMAIN store'
                /\ store'[A.sid] = Once(A.found[1], A)
          /\ /\ together
             /\ A.pc = "ack" /\ inflight'[b].pc = "ack"
             /\ store[A.sid] = Once(A.found[1], A)
             => /\ B.sid \in DOMAIN store'
                /\ store'[B.sid] \in {Serially(A.found[1], A, B),
                                       Serially(A.found[1], B, A)}]_vars

\* Two deliveries of different events for the same record, which both found as
\* it was, have both been written and neither is acknowledged yet; the record
\* carries the time of the later write.
C21_Witness ==
    \E a, b \in Slots :
        /\ a # b
        /\ inflight[a].op = "webhook" /\ inflight[a].pc = "ack"
        /\ inflight[b].op = "webhook" /\ inflight[b].pc = "ack"
        /\ inflight[a].sid = inflight[b].sid
        /\ inflight[a].found # <<>> /\ inflight[a].found = inflight[b].found
        /\ inflight[a].input.storeOk /\ inflight[b].input.storeOk
        /\ inflight[a].input.bytes.doc.event = "subscription.charged"
        /\ inflight[b].input.bytes.doc.event = "subscription.cancelled"
        /\ inflight[a].sid \in DOMAIN store
        /\ store[inflight[a].sid].updatedAt \in {NewDate(inflight[a].t), NewDate(inflight[b].t)}
        /\ store[inflight[a].sid].updatedAt > inflight[a].found[1].updatedAt

\* C25: the webhook answers within the request.  A delivery of a verified,
\* handled event takes its slot unanswered; the only steps it makes are the
\* store call returning (written or failed), still unanswered, and then the
\* acknowledgement, a 200 that ends the request; and under RaceFairSpec,
\* where the store call returns, every such delivery is acknowledged.
C25_AcknowledgedAfterUpdate ==
    /\ [][\A k \in Slots :
            /\ inflight[k].op = "idle" /\ inflight'[k].op = "webhook"
               => inflight'[k].pc = "update" /\ last' = last /\ store' = store
            /\ inflight[k].op = "webhook" /\ inflight'[k] # inflight[k]
               => \/ /\ inflight[k].pc = "update"
                     /\ inflight'[k] = [inflight[k] EXCEPT !.pc = "ack"]
                     /\ last' = last
                  \/ /\ inflight[k].pc = "ack"
                     /\ inflight'[k] = NoFlight
                     /\ last'.op = "webhook" /\ last'.code = 200
                     /\ last'.body = JSONparse(toString(inflight[k].input.bytes))
                     /\ store' = store]_vars
    /\ \A k \in Slots : (inflight[k].op = "webhook") ~> (inflight[k].op = "idle")

\* A verified subscription.cancelled for a stored record has been acknowledged
\* after its update was written: the record carries the update, stamped with
\* the time the event arrived, at least two steps before the response.
C25_Witness ==
    /\ last.op = "webhook" /\ last.verified /\ last.storeOk /\ last.code = 200
    /\ last.body.event = "subscription.cancelled"
    /\ last.sid \in DOMAIN store
    /\ store[last.sid].status = "cancelled"
    /\ store[last.sid].cancelledAt = store[last.sid].updatedAt
    /\ store[last.sid].updatedAt <= NewDate(now - 3)
    /\ \A k \in Slots : inflight[k].op = "idle"

\* C28: a user action does not overwrite a status outside its precondition
\* set.  When its store update is written onto a record whose status is, by
\* then, not one the action is allowed from, the status stays as it is.
C28_NoOverwriteOutsidePrecondition ==
    [][\A k \in Slots :
          LET flight == inflight[k]
          IN
          /\ flight.op \in UserActions /\ flight.pc = "update"
          /\ inflight'[k].op = "idle"
          /\ flight.sid \in DOMAIN store
          /\ store[flight.sid].status \notin AllowedFrom(flight.op)
          => store'[flight.sid].status = store[flight.sid].status]_vars

\* The delivery in slot k is a verified event e about subscription S, whose
\* store update is let through, and S was created through create: its record
\* is stored, or the create that made it at the gateway is about to insert a
\* valid record.
EventInFlight(k, e, S) ==
    /\ inflight[k].op = "webhook" /\ inflight[k].pc = "update"
    /\ inflight[k].input.storeOk
    /\ inflight[k].input.bytes.doc.event = e
    /\ inflight[k].sid = S
    /\ \/ S \in DOMAIN store
       \/ \E j \in Slots :
            /\ inflight[j].op = "create" /\ inflight[j].pc = "insert"
            /\ inflight[j].sid = S
            /\ inflight[j].input.fail = "none"
            /\ Validates(inflight[j].write[1])

\* C29: every verified subscription event the gateway emits for a
\* subscription created through create is eventually reflected in its record,
\* also when the delivery is processed between the gateway's create and the
\* insert of the record: once subscription.cancelled is in flight for it, the
\* record comes to hold status cancelled.
C29_EventuallyReflected ==
    \A k \in Slots, S \in SubIds :
        EventInFlight(k, "subscription.cancelled", S)
        ~> (S \in DOMAIN store /\ store[S].status = "cancelled")

\* C27: in every reachable state, each (user, plan) has at most one record
\* whose status is created, authenticated, active or pending.
C27_OneLiveRecordPerPlan ==
    \A userId \in Users, planId \in Plans :
        Cardinality({s \in DOMAIN store :
                        /\ store[s].userId = userId
                        /\ store[s].planId = planId
                        /\ store[s].status \in
                              {"created", "authenticated", "active", "pending"}}) <= 1

\* C31: a record in status pending_cancellation stays there until it becomes
\* cancelled or completed: no user action and no later webhook event gives it
\* any other status.
C31_PendingCancellationHolds ==
    [][\A s \in DOMAIN store :
          /\ last'.op \in UserActions \cup {"webhook"}
          /\ s \in DOMAIN store' /\ store[s].status = "pending_cancellation"
          => store'[s].status \in {"pending_cancellation", "cancelled", "completed"}]_vars

\* C32: create for a plan that the Plan store does not hold as active (unknown,
\* or deactivated by deletePlan) is answered 400, issues no gateway call and
\* inserts no record; deletePlan clears the isActive flag of its plan and
\* nothing else, leaving every subscription record as it was.
C32_InactivePlan ==
    [][/\ /\ last'.op = "create"
          /\ ~(last'.plan \in DOMAIN planActive /\ planActive[last'.plan])
          => /\ last'.code = 400 /\ last'.gw = <<>>
             /\ store' = store /\ gateway' = gateway
       /\ last'.op = "deletePlan"
          => /\ store' = store /\ gateway' = gateway
             /\ planActive' = [p \in DOMAIN planActive |->
                                  IF p = last'.plan THEN FALSE ELSE planActive[p]]]_vars

\* A create for a plan that deletePlan has deactivated, of which a record is
\* still stored with the status it had, has just been refused for the plan.
C32_Witness ==
    /\ last.op = "create" /\ last.code = 400 /\ last.error = "plan_not_available"
    /\ last.plan \in DOMAIN planActive /\ ~planActive[last.plan]
    /\ \E s \in DOMAIN store :
          store[s].planId = last.plan /\ store[s].status = "created"

\* ================================================================ sessions
\* The User collection with its refresh tokens (controllers/auth.controller.js,
\* models/User.js).  A user is named by its _id; the e-mail or phone of a
\* request stands for the user it finds.  Here the clock moves when a second
\* passes, not with a request: two requests can be served within one second.

\* jwt.sign(payload, secret, { expiresIn }): the token is its payload (_id and
\* iat, the clock in whole seconds; exp follows from iat) under the HS256
\* signature of the secret, so signing the same _id twice within one second
\* gives the same token.  sig names the secret the token was signed with.
generateRefreshToken(_id, t) == [_id |-> _id, iat |-> t, sig |-> "REFRESH_TOKEN_SECRET"]

generateAccessToken(_id, t) == [_id |-> _id, iat |-> t, sig |-> "ACCESS_TOKEN_SECRET"]

\* jwt.verify(incomingRefreshToken, REFRESH_TOKEN_SECRET) does not throw.  No
\* token lives long enough to expire within the seconds of a behaviour.
jwtVerifies(token) == token.sig = "REFRESH_TOKEN_SECRET"

\* The refreshToken cookie of a request: none, a token the server handed out,
\* or the same payload signed by somebody else.
Cookies ==
    {<<>>} \cup {<<token>> : token \in issued}
           \cup {<<[token EXCEPT !.sig = "other"]>> : token \in issued}

\* What the caller of an auth route sees, and what it sent.
\*   cookie                      req.cookies.refreshToken, if any
\*   accessToken, refreshToken   the tokens of the response, if any
AuthObs(op, user, code, error, cookie) ==
    [op |-> op, user |-> user, code |-> code, error |-> error, cookie |-> cookie,
     accessToken |-> <<>>, refreshToken |-> <<>>]

\* throw new ApiError(code, ...): the request is answered and nothing is written.
authRefused(op, user, code, error, cookie) ==
    /\ last' = AuthObs(op, user, code, error, cookie)
    /\ UNCHANGED <<users, issued>>

\* userSchema: status defaults to "active"; refreshToken is not set.
NewUser == [status |-> "active", refreshToken |-> <<>>]

\* generateAccessAndRefreshToken(userId) on the collection st, and the
\* response that carries the tokens.
generateAccessAndRefreshToken(op, userId, code, cookie, st) ==
    IF userId \notin DOMAIN st
    THEN authRefused(op, userId, 404, "User not found while generating tokens", cookie)
    ELSE
    LET accessToken == generateAccessToken(userId, now)
        refreshToken == generateRefreshToken(userId, now)
    IN
    /\ users' = [st EXCEPT ![userId].refreshToken = <<refreshToken>>]
    /\ issued' = issued \cup {refreshToken}
    /\ last' = [AuthObs(op, userId, code, Unset, cookie)
                  EXCEPT !.accessToken = <<accessToken>>,
                         !.refreshToken = <<refreshToken>>]

\* What every auth request leaves alone.
authFrame == UNCHANGED <<store, gateway, planActive, now, inflight, catalog, runs>>

\* POST /register
registerUser(userId, complete) ==
    /\ authFrame
    /\ IF ~complete
       THEN authRefused("register", userId, 400, "Required fields are missing", <<>>)
       ELSE IF userId \in DOMAIN users
       THEN authRefused("register", userId, 409, "User already exists", <<>>)
       ELSE generateAccessAndRefreshToken(
                "register", userId, 201, <<>>,
                [u \in DOMAIN users \cup {userId} |->
                    IF u = userId THEN NewUser ELSE users[u]])

\* POST /login
loginUser(userId, complete, isPasswordValid) ==
    /\ authFrame
    /\ IF ~complete
       THEN authRefused("login", userId, 400, "Required fields are missing", <<>>)
       ELSE IF userId \notin DOMAIN users
       THEN authRefused("login", userId, 404, "User does not exist", <<>>)
       ELSE IF users[userId].status = "blocked"
       THEN authRefused("login", userId, 403, "Your account is blocked", <<>>)
       ELSE IF ~isPasswordValid
       THEN authRefused("login", userId, 401, "Invalid user credentials", <<>>)
       ELSE generateAccessAndRefreshToken("login", userId, 200, <<>>, users)

\* POST /logout, behind verifyJWT: req.user is a user of the collection.
logoutUser(userId) ==
    /\ authFrame
    /\ userId \in DOMAIN users
    /\ users' = [users EXCEPT ![userId].refreshToken = <<>>]
    /\ last' = AuthObs("logout", userId, 200, Unset, <<>>)
    /\ UNCHANGED issued

\* incomingRefreshToken !== user?.refreshToken
tokenMismatch(incomingRefreshToken, user) == user.refreshToken # <<incomingRefreshToken>>

\* POST /refresh-token
refreshAccessToken(cookie) ==
    /\ authFrame
    /\ IF cookie = <<>>
       THEN authRefused("refresh", Unset, 401, "Unauthorized request", cookie)
       ELSE IF ~jwtVerifies(cookie[1])
       THEN authRefused("refresh", Unset, 401, "Invalid or expired refresh token", cookie)
       ELSE IF cookie[1]._id \notin DOMAIN users
       THEN authRefused("refresh", cookie[1]._id, 401, "Invalid refresh token", cookie)
       ELSE IF tokenMismatch(cookie[1], users[cookie[1]._id])
       THEN authRefused("refresh", cookie[1]._id, 401,
                        "Refresh token is expired or already used", cookie)
       ELSE generateAccessAndRefreshToken("refresh", cookie[1]._id, 200, cookie, users)

\* The status of a user is set from outside the routes (status: enum
\* ["active", "blocked"]); no request writes it.
statusSet(userId, status) ==
    /\ userId \in DOMAIN users
    /\ users[userId].status # status
    /\ users' = [users EXCEPT ![userId].status = status]
    /\ UNCHANGED <<store, gateway, planActive, now, last, inflight, issued, catalog, runs>>

\* A second passes between two requests.
secondPasses ==
    /\ now < MaxClock
    /\ now' = now + 1
    /\ UNCHANGED <<store, gateway, planActive, last, inflight, users, issued, catalog, runs>>

AuthNext ==
    \/ \E u \in Users, complete \in BOOLEAN : registerUser(u, complete)
    \/ \E u \in Users, complete \in BOOLEAN, isPasswordValid \in BOOLEAN :
            loginUser(u, complete, isPasswordValid)
    \/ \E u \in Users : logoutUser(u)
    \/ \E cookie \in Cookies : refreshAccessToken(cookie)
    \/ \E u \in Users, status \in {"active", "blocked"} : statusSet(u, status)
    \/ secondPasses

AuthSpec == Init /\ [][AuthNext]_vars

\* A step of AuthSpec that is a request: no second passes in it and no status
\* is set from outside.
AuthRequest ==
    /\ now' = now
    /\ \A u \in DOMAIN users : users'[u].status = users[u].status

\* refreshAccessToken would answer 200 to this token on the collection st.
Accepted(st, token) ==
    /\ jwtVerifies(token)
    /\ token._id \in DOMAIN st
    /\ ~tokenMismatch(token, st[token._id])

\* C33: a refresh succeeds only for the token stored for the user, and once a
\* refresh, a login or a logout of a user has succeeded, no refresh token
\* handed out to that user before it is accepted any more.
C33_EarlierTokensRejected ==
    [][AuthRequest =>
         /\ last'.op = "refresh" /\ last'.code = 200
            => /\ last'.user \in DOMAIN users
               /\ users[last'.user].refreshToken = last'.cookie
         /\ last'.op \in {"refresh", "login", "logout"} /\ last'.code = 200
            => \A token \in issued :
                  token._id = last'.user => ~Accepted(users', token)]_vars

\* C35: a login or a refresh for a user whose status is blocked is refused and
\* carries no access token, whatever refresh token the user holds.
C35_BlockedNeverIssued ==
    [][/\ AuthRequest
       /\ last'.op \in {"login", "refresh"}
       /\ last'.user \in DOMAIN users
       /\ users[last'.user].status = "blocked"
       => /\ last'.code >= 400
          /\ last'.accessToken = <<>>]_vars

\* ------------------------------------------- refresh requests side by side
\* refreshAccessToken cut at its awaits: User.findById of the handler,
\* User.findById of generateAccessAndRefreshToken, and user.save, after which
\* the response is sent.  A request without a cookie, or with one jwt.verify
\* throws on, is answered in the step it arrives in.
refreshArrives(k, cookie) ==
    /\ inflight[k].op = "idle"
    /\ UNCHANGED <<store, gateway, planActive, now, catalog, runs>>
    /\ IF cookie = <<>>
       THEN /\ authRefused("refresh", Unset, 401, "Unauthorized request", cookie)
            /\ UNCHANGED inflight
       ELSE IF ~jwtVerifies(cookie[1])
       THEN /\ authRefused("refresh", Unset, 401, "Invalid or expired refresh token", cookie)
            /\ UNCHANGED inflight
       ELSE /\ Holds(k, Flight("refresh", "findById", cookie[1]._id, 0, cookie, 0, <<>>))
            /\ UNCHANGED <<users, issued, last>>

\* const user = await User.findById(decodedToken?._id) returns, and the
\* handler compares the cookie with what it read.
refreshFinds(k) ==
    LET flight == inflight[k] IN
    /\ flight.op = "refresh" /\ flight.pc = "findById"
    /\ UNCHANGED <<store, gateway, planActive, now, catalog, runs>>
    /\ IF flight.user \notin DOMAIN users
       THEN /\ authRefused("refresh", flight.user, 401, "Invalid refresh token", flight.input)
            /\ Leaves(k)
       ELSE IF tokenMismatch(flight.input[1], users[flight.user])
       THEN /\ authRefused("refresh", flight.user, 401,
                           "Refresh token is expired or already used", flight.input)
            /\ Leaves(k)
       ELSE /\ Holds(k, [flight EXCEPT !.pc = "generate", !.found = <<users[flight.user]>>])
            /\ UNCHANGED <<users, issued, last>>

\* generateAccessAndRefreshToken: its User.findById returns, the tokens are
\* signed and user.save is called with the new refreshToken.
refreshGenerates(k) ==
    LET flight == inflight[k] IN
    /\ flight.op = "refresh" /\ flight.pc = "generate"
    /\ UNCHANGED <<store, gateway, planActive, now, catalog, runs>>
    /\ IF flight.user \notin DOMAIN users
       THEN /\ authRefused("refresh", flight.user, 404,
                           "User not found while generating tokens", flight.input)
            /\ Leaves(k)
       ELSE /\ Holds(k, [flight EXCEPT
                            !.pc = "save", !.t = now,
                            !.write = <<generateAccessToken(flight.user, now),
                                        generateRefreshToken(flight.user, now)>>])
            /\ UNCHANGED <<users, issued, last>>

\* user.save returns: the collection holds the new refreshToken and the
\* response carries both tokens.
refreshSaves(k) ==
    LET flight == inflight[k] IN
    /\ flight.op = "refresh" /\ flight.pc = "save"
    /\ UNCHANGED <<store, gateway, planActive, now, catalog, runs>>
    /\ users' = [users EXCEPT ![flight.user].refreshToken = <<flight.write[2]>>]
    /\ issued' = issued \cup {flight.write[2]}
    /\ last' = [AuthObs("refresh", flight.user, 200, Unset, flight.input)
                  EXCEPT !.accessToken = <<flight.write[1]>>,
                         !.refreshToken = <<flight.write[2]>>]
    /\ Leaves(k)

\* One user, whose requests are complete, next to the refresh requests.
AuthRaceNext ==
    \/ registerUser("u1", TRUE)
    \/ \E isPasswordValid \in BOOLEAN : loginUser("u1", TRUE, isPasswordValid)
    \/ logoutUser("u1")
    \/ \E k \in Slots, cookie \in Cookies : refreshArrives(k, cookie)
    \/ \E k \in Slots : refreshFinds(k)
    \/ \E k \in Slots : refreshGenerates(k)
    \/ \E k \in Slots : refreshSaves(k)
    \/ secondPasses

AuthRaceSpec == Init /\ [][AuthRaceNext]_vars

\* C34: a refresh token that a refresh request was answered 200 for, and that
\* was replaced by another token, is not answered 200 again, also when the
\* second request carrying it was already being handled; and the refresh
\* token of a 200 is the one the collection holds when it is sent.
C34_AcceptedOnce ==
    [][\A k \in Slots :
          /\ inflight[k].op = "refresh" /\ inflight[k].pc = "save"
          /\ inflight'[k].op = "idle"
          => /\ last'.code = 200 => users'[last'.user].refreshToken = last'.refreshToken
             /\ /\ last.op = "refresh" /\ last.code = 200
                /\ last.cookie = inflight[k].input
                /\ last.refreshToken # last.cookie
                => last'.code # 200]_vars

\* ============================================================ YouTube sync
\* syncYouTubeVideos (services/youtubeSync.js) filling the YoutubeVideo
\* collection (models/YoutubeVideo.js) from the search feed, page by page.
\* The feed is the environment; a run is cut at its awaits: axios.get, and the
\* two halves of an upsert, the store looking the videoId up and the store
\* writing, between which the upsert of another run can land.

\* The pages of the feed, and the items of a page.
MaxPages == 2

MaxItems == 1

VideoIds == {"v1", "v2"}

\* snippet.title as the feed reports it: a title can change between two runs.
Titles == {"a", "b"}

\* The items of a page: videos, and a playlist for what the loop skips.
FeedItems ==
    {[kind |-> "youtube#video", videoId |-> v, title |-> t] : v \in VideoIds, t \in Titles}
       \cup {[kind |-> "youtube#playlist", videoId |-> Unset, title |-> "a"]}

\* The pages the feed can answer for pageToken; its last page has no
\* nextPageToken.
FeedPages(pageToken) ==
    {[items |-> items, next |-> next] :
        items \in UNION {[1..n -> FeedItems] : n \in 0..MaxItems},
        next \in IF pageToken + 1 < MaxPages THEN {<<>>, <<pageToken + 1>>} ELSE {<<>>}}

\* if (item.id.kind !== "youtube#video") continue;
videoItems(items) == SelectSeq(items, LAMBDA item : item.kind = "youtube#video")

\* The loop once an upsert has returned, or a page had nothing to upsert: the
\* next item, the next page, or the end of the run.
proceed(run, items) ==
    IF items # <<>>
    THEN [run EXCEPT !.pc = "upsert", !.items = items, !.write = Unset]
    ELSE IF run.next = <<>>
    THEN NoRun
    ELSE [NoRun EXCEPT !.pc = "fetch", !.pageToken = run.next[1]]

\* What a run writes to the console when it ends: console.log("YouTube Sync
\* Completed ...") or console.error("Sync Error:", ...).
SyncObs(error) == [op |-> "sync", error |-> error]

\* The run of a slot ends with its log line, or goes on silently.
syncGoesOn(k, run) ==
    /\ runs' = [runs EXCEPT ![k] = run]
    /\ IF run = NoRun THEN last' = SyncObs(Unset) ELSE UNCHANGED last

\* catch (error): the run ends where it is.
syncCatches(k) ==
    /\ runs' = [runs EXCEPT ![k] = NoRun]
    /\ last' = SyncObs("Sync Error")

\* The schedule (or the start of the server) calls syncYouTubeVideos.
syncStarts(k) ==
    /\ runs[k].pc = "idle"
    /\ runs' = [runs EXCEPT ![k] = [NoRun EXCEPT !.pc = "fetch"]]
    /\ UNCHANGED <<store, gateway, planActive, now, last, inflight, users, issued, catalog>>

\* const { data } = await axios.get(url) returns or throws.
syncFetches(k, page, fails) ==
    /\ runs[k].pc = "fetch"
    /\ IF fails
       THEN syncCatches(k)
       ELSE syncGoesOn(k, proceed([runs[k] EXCEPT !.next = page.next],
                                  videoItems(page.items)))
    /\ UNCHANGED <<store, gateway, planActive, now, inflight, users, issued, catalog>>

\* A document of the collection holds this videoId.
holds(coll, videoId) == \E i \in DOMAIN coll : coll[i].videoId = videoId

\* findOneAndUpdate({ videoId }, ..., { upsert: true }), first half: the store
\* looks the videoId up and settles on an update or an insert.
syncUpsertFinds(k) ==
    /\ runs[k].pc = "upsert"
    /\ runs' = [runs EXCEPT ![k] =
                   [runs[k] EXCEPT
                       !.pc = "write",
                       !.write = IF holds(catalog, Head(runs[k].items).videoId)
                                 THEN "update" ELSE "insert"]]
    /\ UNCHANGED <<store, gateway, planActive, now, last, inflight, users, issued, catalog>>

\* The unique index with no effect: what C36_OneEntryPerVideo must tell apart.
duplicateKeyNever(coll, videoId) == FALSE

\* videoId: { unique: true }: the index refuses a second document of a videoId.
duplicateKey(coll, videoId) == holds(coll, videoId)

\* The update of the upsert applied to the document of its videoId.
updated(coll, item) ==
    [i \in DOMAIN coll |->
        IF coll[i].videoId = item.videoId
        THEN [coll[i] EXCEPT !.title = item.title]
        ELSE coll[i]]

\* Second half of the upsert: the store writes, or the call throws.  An insert
\* the unique index refuses is retried by the store as an update, or thrown
\* as E11000; either ends in the catch of the run or in the next step of its
\* loop.
syncUpsertWrites(k, outcome) ==
    LET run == runs[k]
        item == Head(run.items)
        refused == run.write = "insert" /\ duplicateKey(catalog, item.videoId)
    IN
    /\ run.pc = "write"
    /\ outcome = "E11000" => refused
    /\ UNCHANGED <<store, gateway, planActive, now, inflight, users, issued>>
    /\ IF outcome \in {"throws", "E11000"}
       THEN /\ syncCatches(k)
            /\ UNCHANGED catalog
       ELSE /\ syncGoesOn(k, proceed(run, Tail(run.items)))
            /\ catalog' =
                  IF run.write = "insert" /\ ~refused
                  THEN Append(catalog, [videoId |-> item.videoId, title |-> item.title])
                  ELSE updated(catalog, item)

SyncNext ==
    \/ \E k \in Slots : syncStarts(k)
    \/ \E k \in Slots, fails \in BOOLEAN :
          \E page \in FeedPages(runs[k].pageToken) : syncFetches(k, page, fails)
    \/ \E k \in Slots : syncUpsertFinds(k)
    \/ \E k \in Slots, outcome \in {"written", "throws", "E11000"} :
          syncUpsertWrites(k, outcome)

SyncSpec == Init /\ [][SyncNext]_vars

\* Every await of a run returns or throws.
SyncFairSpec ==
    /\ SyncSpec
    /\ \A k \in Slots :
          /\ WF_vars(\E fails \in BOOLEAN :
                        \E page \in FeedPages(runs[k].pageToken) : syncFetches(k, page, fails))
          /\ WF_vars(syncUpsertFinds(k))
          /\ WF_vars(\E outcome \in {"written", "throws", "E11000"} :
                        syncUpsertWrites(k, outcome))

\* A run that is about to write the last item of the last page of the feed.
AtLastItem(k) ==
    /\ runs[k].pc \in {"upsert", "write"}
    /\ runs[k].next = <<>>

\* C36: a run that holds a page without nextPageToken fetches no further page
\* and ends with the last item of that page; a call that throws ends the run
\* in that step and leaves the catalog as it is; no entry ever leaves the
\* catalog, and the catalog never holds two entries of one videoId, however
\* the runs overlap.  Every run that holds its last page ends.
C36_OneEntryPerVideo ==
    /\ [][/\ \A i, j \in DOMAIN catalog' :
                catalog'[i].videoId = catalog'[j].videoId => i = j
          /\ \A i \in DOMAIN catalog :
                i \in DOMAIN catalog' /\ catalog'[i].videoId = catalog[i].videoId
          /\ \A k \in Slots :
                /\ AtLastItem(k) => runs'[k].pc # "fetch"
                /\ AtLastItem(k) /\ runs[k].pc = "write" /\ Len(runs[k].items) = 1
                      => runs'[k].pc \in {"write", "idle"}
                /\ /\ runs'[k] # runs[k] /\ runs[k].pc # "idle"
                   /\ last' = SyncObs("Sync Error") /\ runs'[k] = NoRun
                   /\ last' # last
                   => catalog' = catalog]_vars
    /\ \A k \in Slots : AtLastItem(k) ~> runs[k].pc = "idle"

\* Runs overlap after one has ended in its catch: the catalog holds two
\* entries, and a run that found no entry for its videoId is about to insert
\* it although another run has inserted it since.
C36_Witness ==
    /\ last = SyncObs("Sync Error")
    /\ Len(catalog) = 2
    /\ \E k \in Slots : runs[k].pc = "write" /\ runs[k].write = "insert"
                          /\ holds(catalog, Head(runs[k].items).videoId)

====
